---------------------------- MODULE Spec2Model ----------------------------
(***************************************************************************)
(* Model of the data normalisation and aggregation engine of visualdata:   *)
(* parseDate, getPeriodKey, getPeriodLabel, parseNumericValue,             *)
(* aggregateValues and the aggregatedData memo of useDataAggregator        *)
(* (src/src/hooks/useFileParser.js), and evaluateFormula                   *)
(* (src/src/components/ColumnMapper.jsx).                                  *)
(*                                                                         *)
(* Strings that the code inspects character by character (cell text,       *)
(* period keys, labels, formulas) are sequences of one-character strings.  *)
(* JavaScript numbers are records [k, s, n, d]: k = "fin" is the rational  *)
(* s*n/d (n >= 0, d > 0, lowest terms; n = 0 keeps the sign of zero),      *)
(* k = "inf" is s*Infinity, k = "nan" is NaN.  Arithmetic is exact: the    *)
(* rounding of IEEE doubles is not modelled.                               *)
(***************************************************************************)
EXTENDS Integers, Sequences, FiniteSets, TLC

VARIABLES
    rawData,         \* useDataAggregator argument: the rows of the dataset
    columnMapping,   \* useDataAggregator argument: field -> column name
    granularity,     \* useDataAggregator argument
    metrics,         \* useDataAggregator argument: <<[field, aggregationType]>>
    aggregatedData,  \* the memo useDataAggregator.aggregatedData
    previousData,    \* what the call before the last returned
    formula,         \* evaluateFormula argument (characters)
    row,             \* evaluateFormula argument: <<[key, val]>> in key order
    fmapping,        \* evaluateFormula argument: <<[field, column, label]>>
    fstate,          \* evaluateFormula: position, substituted text, result
    pvalue,          \* parseDate / parseNumericValue argument (a cell)
    presult,         \* the function called and what it returned
    dvalues,         \* detectColumnType argument: the cells of one column
    dtype,           \* what detectColumnType returned
    file,            \* the file handed to parseFile, as XLSX reads it
    parser,          \* the state of the hook useFileParser
    app,             \* the state of the component App
    storage,         \* localStorage item rv_configs: the object JSON.parse gives
    clock,           \* new Date(): the time of the next call
    expected,        \* per name, the arguments of its last successful saveConfig
    configCall,      \* the last call of useConfigStorage and what it returned
    chartPoint,      \* EngagementChart.chartData: newRow[metric.field] of a formula metric
    metricTotal,     \* the last call of getMetricTotal and what it returned
    chart,           \* a mounted chart: its selected metrics and its hiddenMetrics set
    calls            \* the calls of parseFile made on one hook: the file of each and whether it settled

vars == <<rawData, columnMapping, granularity, metrics, aggregatedData,
          previousData,
          formula, row, fmapping, fstate,
          pvalue, presult,
          dvalues, dtype,
          file, parser,
          app,
          storage, clock, expected, configCall,
          chartPoint,
          metricTotal,
          chart,
          calls>>

aggVars == <<rawData, columnMapping, granularity, metrics, aggregatedData,
            previousData>>
formulaVars == <<formula, row, fmapping, fstate>>
parseVars == <<pvalue, presult>>
detectVars == <<dvalues, dtype>>
parserVars == <<file, parser>>
appVars == <<app>>
configVars == <<storage, clock, expected, configCall>>
chartDataVars == <<chartPoint>>
totalVars == <<metricTotal>>
chartVars == <<chart>>
callVars == <<calls>>

-----------------------------------------------------------------------------
(* Characters *)

DigitChars == <<"0", "1", "2", "3", "4", "5", "6", "7", "8", "9">>

IsDigit(c) == \E i \in 1..10 : DigitChars[i] = c

DigitVal(c) == (CHOOSE i \in 1..10 : DigitChars[i] = c) - 1

AllDigits(s) == \A i \in 1..Len(s) : IsDigit(s[i])

\* the decimal value of a run of digits
RECURSIVE DigitsVal(_)
DigitsVal(s) ==
    IF Len(s) = 0 THEN 0
    ELSE 10 * DigitsVal(SubSeq(s, 1, Len(s) - 1)) + DigitVal(s[Len(s)])

\* String(n) for an integer n >= 0
RECURSIVE NatToChars(_)
NatToChars(n) ==
    IF n < 10 THEN <<DigitChars[n + 1]>>
    ELSE NatToChars(n \div 10) \o <<DigitChars[(n % 10) + 1]>>

\* left-pad with "0" to the given width (date-fns addLeadingZeros)
RECURSIVE PadZeros(_, _)
PadZeros(s, width) == IF Len(s) >= width THEN s ELSE PadZeros(<<"0">> \o s, width)

IsSpace(c) == c \in {" ", "\t", "\n"}

RECURSIVE TrimLeft(_)
TrimLeft(s) == IF Len(s) > 0 /\ IsSpace(s[1]) THEN TrimLeft(Tail(s)) ELSE s

RECURSIVE TrimRight(_)
TrimRight(s) ==
    IF Len(s) > 0 /\ IsSpace(s[Len(s)]) THEN TrimRight(SubSeq(s, 1, Len(s) - 1)) ELSE s

Trim(s) == TrimRight(TrimLeft(s))

StartsWith(s, p) == Len(s) >= Len(p) /\ SubSeq(s, 1, Len(p)) = p

-----------------------------------------------------------------------------
(* JavaScript numbers *)

RECURSIVE Gcd(_, _)
Gcd(a, b) == IF b = 0 THEN a ELSE Gcd(b, a % b)

NaN == [k |-> "nan", s |-> 1, n |-> 0, d |-> 1]
Inf(sg) == [k |-> "inf", s |-> sg, n |-> 0, d |-> 1]

\* the finite number sg * n / d, n >= 0, d > 0
Fin(sg, n, d) ==
    LET g == Gcd(n, d)
    IN  [k |-> "fin", s |-> sg, n |-> n \div g, d |-> d \div g]

Num(i) == IF i < 0 THEN Fin(-1, -i, 1) ELSE Fin(1, i, 1)

IsZero(x) == x.k = "fin" /\ x.n = 0
IsNaN(x) == x.k = "nan"
IsFinite(x) == x.k = "fin"

\* signed numerator of a finite number
SNum(x) == x.s * x.n

\* === on numbers: NaN equals nothing, +0 equals -0
NumEq(x, y) ==
    /\ ~IsNaN(x) /\ ~IsNaN(y)
    /\ x.k = y.k
    /\ IF x.k = "inf" THEN x.s = y.s ELSE SNum(x) * y.d = SNum(y) * x.d

\* x < y on numbers other than NaN
NumLess(x, y) ==
    CASE x.k = "inf" -> x.s = -1 /\ ~(y.k = "inf" /\ y.s = -1)
      [] y.k = "inf" -> y.s = 1
      [] OTHER ->
            LET qx == SNum(x) \div x.d
                qy == SNum(y) \div y.d
            IN  \/ qx < qy
                \/ qx = qy /\ (SNum(x) % x.d) * y.d < (SNum(y) % y.d) * x.d

JsNeg(x) == IF IsNaN(x) THEN NaN ELSE [x EXCEPT !.s = -x.s]

\* 2^26 and 2^28
TwoTo26 == 67108864
TwoTo28 == 268435456

\* a double has 53 significant bits: next to an x of at least 2^28 the
\* doubles are 2^-25 apart or more, so an addend y below 2^-26 is less than
\* half that distance and x + y is rounded back to x
Absorbs(x, y) ==
    /\ x.k = "fin" /\ y.k = "fin"
    /\ y.n # 0
    /\ x.n \div x.d >= TwoTo28
    /\ y.d \div y.n > TwoTo26

\* x + y; the sums of the other finite numbers of the model are exact
JsAdd(x, y) ==
    CASE IsNaN(x) \/ IsNaN(y) -> NaN
      [] x.k = "inf" /\ y.k = "inf" -> IF x.s = y.s THEN x ELSE NaN
      [] x.k = "inf" -> x
      [] y.k = "inf" -> y
      [] Absorbs(x, y) -> x
      [] Absorbs(y, x) -> y
      [] OTHER ->
            LET g == Gcd(x.d, y.d)
                t == SNum(x) * (y.d \div g) + SNum(y) * (x.d \div g)
            IN  IF t = 0
                THEN Fin(IF IsZero(x) /\ IsZero(y) /\ x.s = -1 /\ y.s = -1 THEN -1 ELSE 1, 0, 1)
                ELSE Fin(IF t < 0 THEN -1 ELSE 1, IF t < 0 THEN -t ELSE t,
                         (x.d \div g) * y.d)

JsSub(x, y) == JsAdd(x, JsNeg(y))

JsMul(x, y) ==
    CASE IsNaN(x) \/ IsNaN(y) -> NaN
      [] (x.k = "inf" /\ IsZero(y)) \/ (IsZero(x) /\ y.k = "inf") -> NaN
      [] x.k = "inf" \/ y.k = "inf" -> Inf(x.s * y.s)
      [] OTHER -> Fin(x.s * y.s, x.n * y.n, x.d * y.d)

JsDiv(x, y) ==
    CASE IsNaN(x) \/ IsNaN(y) -> NaN
      [] x.k = "inf" /\ y.k = "inf" -> NaN
      [] IsZero(x) /\ IsZero(y) -> NaN
      [] x.k = "inf" -> Inf(x.s * y.s)
      [] y.k = "inf" -> Fin(x.s * y.s, 0, 1)
      [] IsZero(y) -> Inf(x.s * y.s)
      [] OTHER -> Fin(x.s * y.s, x.n * y.d, x.d * y.n)

-----------------------------------------------------------------------------
(* Cell values of a Raw Row, as the decoder yields them (raw: true,        *)
(* defval: null, cellDates: false): numbers, strings, booleans and null;   *)
(* "undef" is what row[column] gives for a column the row does not have.   *)

NumCell(x) == [t |-> "num", num |-> x, str |-> <<>>]
StrCell(s) == [t |-> "str", num |-> NaN, str |-> s]
NullCell == [t |-> "null", num |-> NaN, str |-> <<>>]
UndefCell == [t |-> "undef", num |-> NaN, str |-> <<>>]
BoolCell(b) == [t |-> "bool", num |-> IF b THEN Num(1) ELSE Num(0), str |-> <<>>]
\* a plain object or an array
ObjCell == [t |-> "obj", num |-> NaN, str |-> <<>>]

\* row[column] on a row held as a function from column names to cells
Cell(r, column) == IF column \in DOMAIN r THEN r[column] ELSE UndefCell

\* the absent number (null) in the shape of a number
Null == [k |-> "null", s |-> 1, n |-> 0, d |-> 1]

-----------------------------------------------------------------------------
(* parseFloat on strings of the forms [ws][sign]digits[.digits],           *)
(* [ws][sign].digits and [ws][sign]Infinity, followed by anything;         *)
(* exponents are outside the modelled inputs.                              *)

RECURSIVE Pow10(_)
Pow10(e) == IF e = 0 THEN 1 ELSE 10 * Pow10(e - 1)

\* length of the longest prefix of digits
RECURSIVE DigitRun(_)
DigitRun(s) == IF Len(s) > 0 /\ IsDigit(s[1]) THEN 1 + DigitRun(Tail(s)) ELSE 0

Drop(s, cnt) == SubSeq(s, cnt + 1, Len(s))

InfinityChars == <<"I", "n", "f", "i", "n", "i", "t", "y">>

ParseFloat(str) ==
    LET t0 == TrimLeft(str)
        signed == Len(t0) > 0 /\ t0[1] \in {"+", "-"}
        sg == IF Len(t0) > 0 /\ t0[1] = "-" THEN -1 ELSE 1
        body == IF signed THEN Tail(t0) ELSE t0
        il == DigitRun(body)
        afterInt == Drop(body, il)
        fl == IF Len(afterInt) > 0 /\ afterInt[1] = "." THEN DigitRun(Tail(afterInt)) ELSE 0
    IN  IF StartsWith(body, InfinityChars) THEN Inf(sg)
        ELSE IF il = 0 /\ fl = 0 THEN NaN
        ELSE Fin(sg,
                 DigitsVal(SubSeq(body, 1, il)) * Pow10(fl)
                     + DigitsVal(SubSeq(afterInt, 2, fl + 1)),
                 Pow10(fl))

-----------------------------------------------------------------------------
(* Calendar of the Date object, in a time zone without offset changes.     *)
(* A date is [valid, day, hour]: day counts days from 1970-01-01, hour is  *)
(* the local hour of that day (the resolution of the model).               *)

IsLeapYear(y) == (y % 4 = 0 /\ y % 100 # 0) \/ y % 400 = 0

DaysInMonth(y, m) ==
    IF m = 2 THEN (IF IsLeapYear(y) THEN 29 ELSE 28)
    ELSE IF m \in {4, 6, 9, 11} THEN 30 ELSE 31

DaysFromCivil(y, m, d) ==
    LET yy == IF m <= 2 THEN y - 1 ELSE y
        era == yy \div 400
        yoe == yy - era * 400
        mp == (m + 9) % 12
        doy == (153 * mp + 2) \div 5 + d - 1
        doe == yoe * 365 + yoe \div 4 - yoe \div 100 + doy
    IN  era * 146097 + doe - 719468

CivilFromDays(z) ==
    LET zz == z + 719468
        era == zz \div 146097
        doe == zz - era * 146097
        yoe == (doe - doe \div 1460 + doe \div 36524 - doe \div 146096) \div 365
        doy == doe - (365 * yoe + yoe \div 4 - yoe \div 100)
        mp == (5 * doy + 2) \div 153
        dd == doy - (153 * mp + 2) \div 5 + 1
        mm == IF mp < 10 THEN mp + 3 ELSE mp - 9
    IN  [year |-> IF mm <= 2 THEN yoe + era * 400 + 1 ELSE yoe + era * 400,
         month |-> mm, day |-> dd]

NoDate == [valid |-> FALSE, day |-> 0, hour |-> 0]
MkDate(dayNo, h) == [valid |-> TRUE, day |-> dayNo, hour |-> h]

\* Date.prototype.getTime, in hours
GetTime(date) == date.day * 24 + date.hour

getYear(date) == CivilFromDays(date.day).year
getMonth(date) == CivilFromDays(date.day).month
getDate(date) == CivilFromDays(date.day).day
getQuarter(date) == (getMonth(date) - 1) \div 3 + 1

startOfDay(date) == MkDate(date.day, 0)
startOfMonth(date) == MkDate(DaysFromCivil(getYear(date), getMonth(date), 1), 0)
startOfQuarter(date) ==
    MkDate(DaysFromCivil(getYear(date), 3 * (getQuarter(date) - 1) + 1, 1), 0)

\* date-fns parseISO on the forms YYYY-MM-DD and YYYY-MM-DDTHH:mm (local
\* time); every other string, and every out-of-range field, is Invalid Date
ParseISO(s) ==
    LET dateOk == /\ Len(s) \in {10, 16}
                  /\ AllDigits(SubSeq(s, 1, 4)) /\ s[5] = "-"
                  /\ AllDigits(SubSeq(s, 6, 7)) /\ s[8] = "-"
                  /\ AllDigits(SubSeq(s, 9, 10))
        timeOk == \/ Len(s) = 10
                  \/ /\ Len(s) = 16
                     /\ s[11] \in {"T", " "}
                     /\ AllDigits(SubSeq(s, 12, 13)) /\ s[14] = ":"
                     /\ AllDigits(SubSeq(s, 15, 16))
        y == DigitsVal(SubSeq(s, 1, 4))
        m == DigitsVal(SubSeq(s, 6, 7))
        d == DigitsVal(SubSeq(s, 9, 10))
        h == IF Len(s) = 16 THEN DigitsVal(SubSeq(s, 12, 13)) ELSE 0
        mi == IF Len(s) = 16 THEN DigitsVal(SubSeq(s, 15, 16)) ELSE 0
    IN  IF dateOk /\ timeOk
           /\ m \in 1..12 /\ d >= 1 /\ d <= DaysInMonth(y, m)
           /\ h <= 23 /\ mi <= 59
        THEN MkDate(DaysFromCivil(y, m, d), h)
        ELSE NoDate

\* index of the first occurrence of character c in s, 0 when there is none
RECURSIVE IndexOf(_, _)
IndexOf(s, c) ==
    IF Len(s) = 0 THEN 0
    ELSE IF s[1] = c THEN 1
    ELSE LET r == IndexOf(Tail(s), c) IN IF r = 0 THEN 0 ELSE r + 1

\* new Date(string) on the form M/D/YYYY (local time, the day counted on
\* from the first of the month); every other string is Invalid Date
NativeDate(s) ==
    LET i1 == IndexOf(s, "/")
        rest1 == Drop(s, i1)
        i2 == IndexOf(rest1, "/")
        ms == SubSeq(s, 1, i1 - 1)
        ds == SubSeq(rest1, 1, i2 - 1)
        ys == Drop(rest1, i2)
    IN  IF /\ i1 > 0 /\ i2 > 0
           /\ Len(ms) \in 1..2 /\ AllDigits(ms)
           /\ Len(ds) \in 1..2 /\ AllDigits(ds)
           /\ Len(ys) = 4 /\ AllDigits(ys)
           /\ DigitsVal(ms) \in 1..12 /\ DigitsVal(ds) \in 1..31
        THEN MkDate(DaysFromCivil(DigitsVal(ys), DigitsVal(ms), 1) + DigitsVal(ds) - 1, 0)
        ELSE NoDate

\* SerialDate counting the days from 1900-01-01
SerialDateFrom1900(x) ==
    LET epoch == DaysFromCivil(1900, 1, 1)
        days == (x.s * x.n) \div x.d
        hours == (x.s * x.n * 24) \div x.d
    IN  IF x.k # "fin" \/ days > 100000000 \/ days < -100000000 THEN NoDate
        ELSE MkDate(epoch + days, hours - days * 24)

\* new Date(excelEpoch.getTime() + value * millisecondsPerDay)
SerialDate(x) ==
    LET epoch == DaysFromCivil(1899, 12, 30)
        days == (x.s * x.n) \div x.d
        hours == (x.s * x.n * 24) \div x.d
    IN  IF x.k # "fin" \/ days > 100000000 \/ days < -100000000 THEN NoDate
        ELSE MkDate(epoch + days, hours - days * 24)

parseDate(value) ==
    CASE value.t \in {"null", "undef"} -> NoDate
      [] value.t \in {"bool", "obj"} -> NoDate
      [] value.t = "num" ->
            IF IsNaN(value.num) \/ IsZero(value.num) THEN NoDate
            ELSE SerialDate(value.num)
      [] value.t = "str" ->
            IF Len(value.str) = 0 THEN NoDate
            ELSE IF ParseISO(value.str).valid THEN ParseISO(value.str)
            ELSE NativeDate(value.str)

-----------------------------------------------------------------------------
(* Period keys and labels *)

\* date-fns format tokens yyyy, MM / dd, d and MMM (years 1..9999)
FormatYear4(date) == PadZeros(NatToChars(getYear(date)), 4)
FormatMonth2(date) == PadZeros(NatToChars(getMonth(date)), 2)
FormatDay2(date) == PadZeros(NatToChars(getDate(date)), 2)

MonthAbbr ==
    << <<"J", "a", "n">>, <<"F", "e", "b">>, <<"M", "a", "r">>, <<"A", "p", "r">>,
       <<"M", "a", "y">>, <<"J", "u", "n">>, <<"J", "u", "l">>, <<"A", "u", "g">>,
       <<"S", "e", "p">>, <<"O", "c", "t">>, <<"N", "o", "v">>, <<"D", "e", "c">> >>

\* getPeriodKey with the month formatted without its year
getPeriodKeyNoYear(date, gran) ==
    CASE gran = "daily" ->
            FormatYear4(startOfDay(date)) \o <<"-">> \o FormatMonth2(startOfDay(date))
                \o <<"-">> \o FormatDay2(startOfDay(date))
      [] gran = "monthly" -> FormatMonth2(startOfMonth(date))
      [] gran = "quarterly" ->
            NatToChars(getYear(date)) \o <<"-", "Q">> \o NatToChars(getQuarter(date))
      [] OTHER ->
            FormatYear4(startOfDay(date)) \o <<"-">> \o FormatMonth2(startOfDay(date))
                \o <<"-">> \o FormatDay2(startOfDay(date))

getPeriodKey(date, gran) ==
    CASE gran = "daily" ->
            FormatYear4(startOfDay(date)) \o <<"-">> \o FormatMonth2(startOfDay(date))
                \o <<"-">> \o FormatDay2(startOfDay(date))
      [] gran = "monthly" ->
            FormatYear4(startOfMonth(date)) \o <<"-">> \o FormatMonth2(startOfMonth(date))
      [] gran = "quarterly" ->
            NatToChars(getYear(date)) \o <<"-", "Q">> \o NatToChars(getQuarter(date))
      [] OTHER ->
            FormatYear4(startOfDay(date)) \o <<"-">> \o FormatMonth2(startOfDay(date))
                \o <<"-">> \o FormatDay2(startOfDay(date))

\* String.prototype.replace(from, to) with one-character strings: the first
\* occurrence only
ReplaceFirst(s, from, to) ==
    LET i == IndexOf(s, from)
    IN  IF i = 0 THEN s ELSE [s EXCEPT ![i] = to]

getPeriodLabel(periodKey, gran) ==
    CASE gran = "daily" ->
            LET d == ParseISO(periodKey)
            IN  IF d.valid
                THEN MonthAbbr[getMonth(d)] \o <<" ">> \o NatToChars(getDate(d))
                         \o <<",", " ">> \o FormatYear4(d)
                ELSE periodKey
      [] gran = "monthly" ->
            LET d == ParseISO(periodKey \o <<"-", "0", "1">>)
            IN  IF d.valid
                THEN MonthAbbr[getMonth(d)] \o <<" ">> \o FormatYear4(d)
                ELSE periodKey
      [] gran = "quarterly" -> ReplaceFirst(periodKey, "-", " ")
      [] OTHER -> periodKey

-----------------------------------------------------------------------------
(* Numeric parsing and reduction *)

\* the characters of the class [$,€£%]; EUR and GBP stand for the glyphs
\* U+20AC and U+00A3
StrippedChars == {"$", ",", "EUR", "GBP", "%"}

parseNumericValue(value) ==
    CASE value.t = "num" -> IF IsNaN(value.num) THEN Null ELSE value.num
      [] value.t = "str" ->
            LET cleaned == Trim(SelectSeq(value.str, LAMBDA c : c \notin StrippedChars))
                parsed == ParseFloat(cleaned)
            IN  IF IsNaN(parsed) THEN Null ELSE parsed
      [] OTHER -> Null

\* values.reduce((sum, val) => sum + val, 0)
RECURSIVE SumValues(_)
SumValues(values) ==
    IF Len(values) = 0 THEN Num(0)
    ELSE JsAdd(SumValues(SubSeq(values, 1, Len(values) - 1)), values[Len(values)])

\* Math.min(...values) and Math.max(...values) on a non-empty list without NaN
MinValue(values) ==
    values[CHOOSE i \in 1..Len(values) :
               \A j \in 1..Len(values) : ~NumLess(values[j], values[i])]
MaxValue(values) ==
    values[CHOOSE i \in 1..Len(values) :
               \A j \in 1..Len(values) : ~NumLess(values[i], values[j])]

\* aggregateValues with the average case falling through to the total
aggregateValuesAverageAsSum(values, aggregationType) ==
    LET validValues == SelectSeq(values, LAMBDA v : v.k \in {"fin", "inf"})
    IN  IF Len(validValues) = 0 THEN Num(0)
        ELSE CASE aggregationType = "count" -> Num(Len(validValues))
               [] aggregationType = "min" -> MinValue(validValues)
               [] aggregationType = "max" -> MaxValue(validValues)
               [] OTHER -> SumValues(validValues)

\* aggregateValues without the two early returns for an empty list
aggregateValuesNoGuard(values, aggregationType) ==
    LET validValues == SelectSeq(values, LAMBDA v : v.k \in {"fin", "inf"})
    IN  CASE aggregationType = "average" ->
                JsDiv(SumValues(validValues), Num(Len(validValues)))
          [] aggregationType = "count" -> Num(Len(validValues))
          [] aggregationType = "min" ->
                IF Len(validValues) = 0 THEN Inf(1) ELSE MinValue(validValues)
          [] aggregationType = "max" ->
                IF Len(validValues) = 0 THEN Inf(-1) ELSE MaxValue(validValues)
          [] OTHER -> SumValues(validValues)

IsValidValue(v) == v.k \in {"fin", "inf"}

aggregateValues(values, aggregationType) ==
    LET validValues == SelectSeq(values, IsValidValue)
    IN  IF Len(values) = 0 THEN Num(0)
        ELSE IF Len(validValues) = 0 THEN Num(0)
        ELSE CASE aggregationType = "sum" -> SumValues(validValues)
               [] aggregationType = "average" ->
                      JsDiv(SumValues(validValues), Num(Len(validValues)))
               [] aggregationType = "count" -> Num(Len(validValues))
               [] aggregationType = "min" -> MinValue(validValues)
               [] aggregationType = "max" -> MaxValue(validValues)
               [] OTHER -> SumValues(validValues)

-----------------------------------------------------------------------------
(* useDataAggregator: the aggregatedData memo *)

\* columnMapping[field], undefined (and the empty string) being falsy
HasMapping(mapping, field) == field \in DOMAIN mapping /\ mapping[field] # ""

\* GroupRows with the push of the row only for a key already in the Map
RECURSIVE GroupRowsDropFirst(_, _, _)
GroupRowsDropFirst(rows, dateColumn, gran) ==
    IF Len(rows) = 0 THEN <<>>
    ELSE LET groupedData ==
                 GroupRowsDropFirst(SubSeq(rows, 1, Len(rows) - 1), dateColumn, gran)
             r == rows[Len(rows)]
             parsedDate == parseDate(Cell(r, dateColumn))
             periodKey == getPeriodKey(parsedDate, gran)
         IN  IF ~parsedDate.valid THEN groupedData
             ELSE IF \E i \in 1..Len(groupedData) : groupedData[i].periodKey = periodKey
             THEN [i \in 1..Len(groupedData) |->
                      IF groupedData[i].periodKey = periodKey
                      THEN [groupedData[i] EXCEPT !.rows = Append(@, r)]
                      ELSE groupedData[i]]
             ELSE Append(groupedData,
                         [periodKey |-> periodKey, date |-> parsedDate, rows |-> <<>>])

\* GroupRows without the has(periodKey) test: every row opens a group
RECURSIVE GroupRowsNoMerge(_, _, _)
GroupRowsNoMerge(rows, dateColumn, gran) ==
    IF Len(rows) = 0 THEN <<>>
    ELSE LET groupedData ==
                 GroupRowsNoMerge(SubSeq(rows, 1, Len(rows) - 1), dateColumn, gran)
             r == rows[Len(rows)]
             parsedDate == parseDate(Cell(r, dateColumn))
         IN  IF ~parsedDate.valid THEN groupedData
             ELSE Append(groupedData,
                         [periodKey |-> getPeriodKey(parsedDate, gran),
                          date |-> parsedDate, rows |-> <<r>>])

\* the loop over rawData filling the Map groupedData, kept in insertion order
RECURSIVE GroupRows(_, _, _)
GroupRows(rows, dateColumn, gran) ==
    IF Len(rows) = 0 THEN <<>>
    ELSE LET groupedData == GroupRows(SubSeq(rows, 1, Len(rows) - 1), dateColumn, gran)
             r == rows[Len(rows)]
             parsedDate == parseDate(Cell(r, dateColumn))
             periodKey == getPeriodKey(parsedDate, gran)
         IN  IF ~parsedDate.valid THEN groupedData
             ELSE IF \E i \in 1..Len(groupedData) : groupedData[i].periodKey = periodKey
             THEN [i \in 1..Len(groupedData) |->
                      IF groupedData[i].periodKey = periodKey
                      THEN [groupedData[i] EXCEPT !.rows = Append(@, r)]
                      ELSE groupedData[i]]
             ELSE Append(groupedData,
                         [periodKey |-> periodKey, date |-> parsedDate, rows |-> <<r>>])

\* the periods left in insertion order
SortPeriodsUnsorted(periods) == periods

\* Array.prototype.sort((a, b) => a.date.getTime() - b.date.getTime()),
\* which is stable
RECURSIVE SortPeriods(_)
SortPeriods(periods) ==
    IF Len(periods) = 0 THEN <<>>
    ELSE LET sorted == SortPeriods(SubSeq(periods, 1, Len(periods) - 1))
             p == periods[Len(periods)]
             before == SelectSeq(sorted, LAMBDA q : GetTime(q.date) <= GetTime(p.date))
             after == SelectSeq(sorted, LAMBDA q : GetTime(q.date) > GetTime(p.date))
         IN  before \o <<p>> \o after

\* period.rows.map(row => parseNumericValue(row[columnName])).filter(v => v !== null)
MetricValues(rows, columnName) ==
    SelectSeq([i \in 1..Len(rows) |-> parseNumericValue(Cell(rows[i], columnName))],
              LAMBDA v : v.k # "null")

\* aggregatedRow[key] = value
SetKey(obj, key, value) ==
    [x \in DOMAIN obj \cup {key} |-> IF x = key THEN value ELSE obj[x]]

\* the loop over metrics writing aggregatedRow[metric.field]
RECURSIVE ApplyMetrics(_, _, _, _)
ApplyMetrics(aggregatedRow, period, mapping, ms) ==
    IF Len(ms) = 0 THEN aggregatedRow
    ELSE LET sofar == ApplyMetrics(aggregatedRow, period, mapping, SubSeq(ms, 1, Len(ms) - 1))
             metric == ms[Len(ms)]
             columnName == IF HasMapping(mapping, metric.field)
                           THEN mapping[metric.field] ELSE metric.field
         IN  SetKey(sofar, metric.field,
                    aggregateValues(MetricValues(period.rows, columnName),
                                    metric.aggregationType))

AggregatedRow(period, mapping, gran, ms) ==
    ApplyMetrics([periodKey |-> period.periodKey,
                  label |-> getPeriodLabel(period.periodKey, gran),
                  date |-> period.date,
                  rowCount |-> Len(period.rows)],
                 period, mapping, ms)

\* aggregate reading the column "date" when the mapping names none
aggregateDefaultDate(rows, mapping, gran, ms) ==
    IF Len(rows) = 0 THEN <<>>
    ELSE LET dateColumn == IF HasMapping(mapping, "date") THEN mapping["date"] ELSE "date"
             sortedPeriods == SortPeriods(GroupRows(rows, dateColumn, gran))
         IN  [i \in 1..Len(sortedPeriods) |->
                 AggregatedRow(sortedPeriods[i], mapping, gran, ms)]

\* aggregate with the array result declared outside the callback: the rows
\* of the earlier call are still in it
aggregateAppending(rows, mapping, gran, ms) ==
    IF Len(rows) = 0 \/ ~HasMapping(mapping, "date") THEN <<>>
    ELSE LET sortedPeriods == SortPeriods(GroupRows(rows, mapping["date"], gran))
         IN  aggregatedData.rows \o
                 [i \in 1..Len(sortedPeriods) |->
                     AggregatedRow(sortedPeriods[i], mapping, gran, ms)]

\* an absent rawData is the empty list (default parameter)
aggregate(rows, mapping, gran, ms) ==
    IF Len(rows) = 0 \/ ~HasMapping(mapping, "date") THEN <<>>
    ELSE LET sortedPeriods == SortPeriods(GroupRows(rows, mapping["date"], gran))
         IN  [i \in 1..Len(sortedPeriods) |->
                 AggregatedRow(sortedPeriods[i], mapping, gran, ms)]

-----------------------------------------------------------------------------
(* Inputs of the aggregator *)

MaxRows == 3
MaxMetrics == 2

Iso20240101 == <<"2", "0", "2", "4", "-", "0", "1", "-", "0", "1">>
Iso20240115 == <<"2", "0", "2", "4", "-", "0", "1", "-", "1", "5">>
Iso20240201 == <<"2", "0", "2", "4", "-", "0", "2", "-", "0", "1">>
Iso20230115 == <<"2", "0", "2", "3", "-", "0", "1", "-", "1", "5">>
Slash20240401 == <<"4", "/", "1", "/", "2", "0", "2", "4">>
NotADate == <<"n", "/", "a">>

\* 2024-01-01 12:00 as a serial number: 45292.5
SerialNoon20240101 == Fin(1, 90585, 2)

MkRow(dateCell, amountCell) == [date |-> dateCell, amount |-> amountCell]

\* rows whose date parses, with the kinds of metric cells
MetricRowDomain ==
    { MkRow(StrCell(Iso20240101), NumCell(Num(100))),
      MkRow(StrCell(Iso20240115), NumCell(Num(50))),
      MkRow(StrCell(Iso20240201), NumCell(Num(200))),
      MkRow(NumCell(SerialNoon20240101), StrCell(<<"a", "b", "c">>)),
      MkRow(StrCell(Slash20240401), StrCell(<<"-", "$", "3", ",", "0", "0", "0">>)) }

\* and a row of another year, and rows whose date does not parse
RowDomain ==
    MetricRowDomain
        \cup { MkRow(StrCell(Iso20230115), NumCell(Num(-5))),
               MkRow(StrCell(NotADate), NumCell(Num(7))),
               MkRow(NullCell, NullCell) }

RECURSIVE SeqsUpTo(_, _)
SeqsUpTo(S, len) ==
    IF len = 0 THEN {<<>>}
    ELSE LET shorter == SeqsUpTo(S, len - 1)
         IN  shorter \cup {Append(q, x) : q \in {z \in shorter : Len(z) = len - 1}, x \in S}

DataSets == SeqsUpTo(RowDomain, MaxRows)
MetricDataSets == SeqsUpTo(MetricRowDomain, MaxRows)

\* mappings as the chart components hand them over: with and without a date
\* column; the field sales is mapped to the column amount, every other field
\* is looked up under its own name
DatedMapping == [date |-> "date", sales |-> "amount"]
MappingDomain == {DatedMapping, [sales |-> "amount"]}

Granularities == {"daily", "monthly", "quarterly"}
AggregationTypes == {"sum", "average", "count", "min", "max"}

MetricDomain ==
    [field : {"sales"}, aggregationType : AggregationTypes]
        \cup { [field |-> "amount", aggregationType |-> "sum"] }

SalesSum == [field |-> "sales", aggregationType |-> "sum"]

\* lists of metrics with pairwise different fields, as the selectors keep them
MetricLists ==
    {ms \in SeqsUpTo(MetricDomain, MaxMetrics) :
        \A a, b \in 1..Len(ms) : a # b => ms[a].field # ms[b].field}

-----------------------------------------------------------------------------
(* Strings of evaluateFormula *)

UpperChars ==
    <<"A", "B", "C", "D", "E", "F", "G", "H", "I", "J", "K", "L", "M",
      "N", "O", "P", "Q", "R", "S", "T", "U", "V", "W", "X", "Y", "Z">>
LowerChars ==
    <<"a", "b", "c", "d", "e", "f", "g", "h", "i", "j", "k", "l", "m",
      "n", "o", "p", "q", "r", "s", "t", "u", "v", "w", "x", "y", "z">>

\* String.prototype.toLowerCase
LowerOf ==
    [c \in {UpperChars[u] : u \in 1..26} |->
        LowerChars[CHOOSE u \in 1..26 : UpperChars[u] = c]]
ToLowerCase(s) ==
    [i \in 1..Len(s) |-> IF s[i] \in DOMAIN LowerOf THEN LowerOf[s[i]] ELSE s[i]]

\* expression.split(pat).join(rep): every occurrence of the non-empty pat,
\* left to right, replaced by rep
RECURSIVE ReplaceAll(_, _, _)
ReplaceAll(s, pat, rep) ==
    IF Len(s) < Len(pat) THEN s
    ELSE IF SubSeq(s, 1, Len(pat)) = pat
    THEN rep \o ReplaceAll(Drop(s, Len(pat)), pat, rep)
    ELSE <<s[1]>> \o ReplaceAll(Tail(s), pat, rep)

\* the digits of the fraction rem / d, 0 <= rem < d, at most limit of them
RECURSIVE FractionDigits(_, _, _)
FractionDigits(rem, d, limit) ==
    IF rem = 0 \/ limit = 0 THEN <<>>
    ELSE <<DigitChars[(rem * 10) \div d + 1]>>
             \o FractionDigits((rem * 10) % d, d, limit - 1)

\* n / d >= 0 in plain decimal notation
DecimalChars(n, d) ==
    LET frac == FractionDigits(n % d, d, 9)
    IN  NatToChars(n \div d) \o (IF Len(frac) = 0 THEN <<>> ELSE <<".">> \o frac)

\* the least e with n * 10^e >= d, for 0 < n < d
RECURSIVE NegExponent(_, _)
NegExponent(n, d) == IF n >= d THEN 0 ELSE 1 + NegExponent(n * 10, d)

\* Number.prototype.toString for numbers below 10^21 with a finite decimal
\* expansion: exponent notation below 10^-6
NumberToString(x) ==
    CASE x.k = "nan" -> <<"N", "a", "N">>
      [] x.k = "inf" -> (IF x.s = -1 THEN <<"-">> ELSE <<>>) \o InfinityChars
      [] x.n = 0 -> <<"0">>
      [] OTHER ->
            (IF x.s = -1 THEN <<"-">> ELSE <<>>)
                \o (IF x.n <= (x.d - 1) \div 1000000
                    THEN LET e == NegExponent(x.n, x.d)
                         IN  DecimalChars(x.n * Pow10(e - 1), x.d \div 10)
                                 \o <<"e", "-">> \o NatToChars(e)
                    ELSE DecimalChars(x.n, x.d))

\* parseFloat(row[key]): the cell is turned into a string first
ParseFloatCell(c) ==
    CASE c.t = "num" -> IF IsZero(c.num) THEN Num(0) ELSE c.num
      [] c.t = "str" -> ParseFloat(c.str)
      [] OTHER -> NaN

-----------------------------------------------------------------------------
(* The expression language Function(`"use strict"; return (...)`) accepts    *)
(* over the whitelisted characters                                           *)

Token(t, c, v) == [t |-> t, c |-> c, v |-> v]
OpToken(c) == Token("op", c, NaN)
NumToken(v) == Token("num", "", v)
ErrToken == Token("err", "", NaN)

\* the position of the first "*" "/" pair, 0 when there is none
RECURSIVE CommentEnd(_)
CommentEnd(s) ==
    IF Len(s) < 2 THEN 0
    ELSE IF s[1] = "*" /\ s[2] = "/" THEN 1
    ELSE LET e == CommentEnd(Tail(s)) IN IF e = 0 THEN 0 ELSE e + 1

\* the source text split into tokens; an ErrToken ends the list where the
\* text is not lexically valid in strict mode
\* the position of the first line terminator, 0 when there is none
RECURSIVE LineEnd(_)
LineEnd(s) ==
    IF Len(s) = 0 THEN 0
    ELSE IF s[1] \in {"\n", "\r"} THEN 1
    ELSE LET e == LineEnd(Tail(s)) IN IF e = 0 THEN 0 ELSE e + 1

\* the numeric literal at the head of s: a leading zero before another digit
\* is a SyntaxError in strict mode
NumericLiteral(s) ==
    LET il == DigitRun(s)
        after == Drop(s, il)
        hasDot == Len(after) > 0 /\ after[1] = "."
        fl == IF hasDot THEN DigitRun(Tail(after)) ELSE 0
        int == IF il = 0 THEN 0 ELSE DigitsVal(SubSeq(s, 1, il))
        frac == IF fl = 0 THEN 0 ELSE DigitsVal(SubSeq(after, 2, fl + 1))
    IN  [ok |-> ~(il >= 2 /\ s[1] = "0"),
         used |-> il + (IF hasDot THEN 1 + fl ELSE 0),
         v |-> Fin(1, int * Pow10(fl) + frac, Pow10(fl))]

\* the source text split into tokens; an ErrToken ends the list where the
\* text is not lexically valid
RECURSIVE Lex(_)
Lex(s) ==
    IF Len(s) = 0 THEN <<>>
    ELSE LET c == s[1]
             next == IF Len(s) >= 2 THEN s[2] ELSE ""
         IN  IF IsSpace(c) \/ c = "\r" THEN Lex(Tail(s))
             ELSE IF IsDigit(c) \/ (c = "." /\ IsDigit(next))
             THEN LET lit == NumericLiteral(s)
                  IN  IF lit.ok THEN <<NumToken(lit.v)>> \o Lex(Drop(s, lit.used))
                      ELSE <<ErrToken>>
             ELSE IF c = "+" /\ next = "+" THEN <<OpToken("++")>> \o Lex(Drop(s, 2))
             ELSE IF c = "-" /\ next = "-" THEN <<OpToken("--")>> \o Lex(Drop(s, 2))
             ELSE IF c = "*" /\ next = "*" THEN <<OpToken("**")>> \o Lex(Drop(s, 2))
             ELSE IF c = "/" /\ next = "/"
             THEN LET nl == LineEnd(s)
                  IN  IF nl = 0 THEN <<>> ELSE Lex(Drop(s, nl))
             ELSE IF c = "/" /\ next = "*"
             THEN LET e == CommentEnd(Drop(s, 2))
                  IN  IF e = 0 THEN <<ErrToken>> ELSE Lex(Drop(s, e + 3))
             ELSE IF c \in {"+", "-", "*", "/", "(", ")"}
             THEN <<OpToken(c)>> \o Lex(Tail(s))
             ELSE <<ErrToken>>

\* x ** y for an integer y; other exponents are not among the modelled inputs
RECURSIVE JsPowNat(_, _)
JsPowNat(x, e) == IF e = 0 THEN Num(1) ELSE JsMul(x, JsPowNat(x, e - 1))
JsPow(x, y) ==
    IF y.k = "fin" /\ y.d = 1
    THEN IF y.n = 0 THEN Num(1)
         ELSE IF y.s = 1 THEN JsPowNat(x, y.n)
         ELSE JsDiv(Num(1), JsPowNat(x, y.n))
    ELSE NaN

\* The parser of the expression, as an operator-precedence machine: vals are
\* the operands read and not yet combined, ops the pending operators and
\* open parentheses ("u+" and "u-" the unary signs), operand tells that an
\* operand is expected next; ok is FALSE after a SyntaxError.
ParserStart == [ok |-> TRUE, vals |-> <<>>, ops |-> <<>>, operand |-> TRUE]
ParserFailed == [ok |-> FALSE, vals |-> <<>>, ops |-> <<>>, operand |-> TRUE]

Precedence(op) ==
    CASE op \in {"+", "-"} -> 1
      [] op \in {"*", "/"} -> 2
      [] op \in {"u+", "u-"} -> 3
      [] op = "**" -> 4
      [] OTHER -> 0

Last(s) == s[Len(s)]
Front(s) == SubSeq(s, 1, Len(s) - 1)

\* the operator on top of ops applied to the operands on top of vals
ApplyTop(st) ==
    LET op == Last(st.ops)
        y == Last(st.vals)
        x == st.vals[Len(st.vals) - 1]
    IN  IF op \in {"u+", "u-"}
        THEN [st EXCEPT !.ops = Front(st.ops),
                        !.vals = Front(st.vals)
                                     \o <<IF op = "u-" THEN JsNeg(y) ELSE y>>]
        ELSE [st EXCEPT !.ops = Front(st.ops),
                        !.vals = Front(Front(st.vals))
                                     \o <<CASE op = "+" -> JsAdd(x, y)
                                            [] op = "-" -> JsSub(x, y)
                                            [] op = "*" -> JsMul(x, y)
                                            [] op = "/" -> JsDiv(x, y)
                                            [] OTHER -> JsPow(x, y)>>]

\* the pending operators of precedence p or more are applied, down to the
\* innermost open parenthesis
RECURSIVE Unwind(_, _)
Unwind(st, p) ==
    IF Len(st.ops) > 0 /\ Last(st.ops) # "(" /\ Precedence(Last(st.ops)) >= p
    THEN Unwind(ApplyTop(st), p)
    ELSE st

\* one token read.  Where an operand is expected, a "/" would open a regular
\* expression literal, whose value never yields a number; the base of **
\* cannot carry a unary sign; "++" and "--" have nothing to apply to
ParserStep(st, tok) ==
    IF ~st.ok THEN st
    ELSE IF st.operand
    THEN IF tok.t = "num"
         THEN [st EXCEPT !.vals = st.vals \o <<tok.v>>, !.operand = FALSE]
         ELSE IF tok.t = "op" /\ tok.c \in {"+", "-"}
         THEN [st EXCEPT !.ops = st.ops \o <<IF tok.c = "-" THEN "u-" ELSE "u+">>]
         ELSE IF tok.t = "op" /\ tok.c = "("
         THEN [st EXCEPT !.ops = st.ops \o <<"(">>]
         ELSE ParserFailed
    ELSE IF tok.t = "op" /\ tok.c \in {"+", "-", "*", "/"}
    THEN LET u == Unwind(st, Precedence(tok.c))
         IN  [u EXCEPT !.ops = u.ops \o <<tok.c>>, !.operand = TRUE]
    ELSE IF tok.t = "op" /\ tok.c = "**"
    THEN IF Len(st.ops) > 0 /\ Last(st.ops) \in {"u+", "u-"}
         THEN ParserFailed
         ELSE [st EXCEPT !.ops = st.ops \o <<"**">>, !.operand = TRUE]
    ELSE IF tok.t = "op" /\ tok.c = ")"
    THEN LET u == Unwind(st, 0)
         IN  IF Len(u.ops) = 0 THEN ParserFailed
             ELSE [u EXCEPT !.ops = Front(u.ops)]
    ELSE ParserFailed

RECURSIVE ParserRun(_, _)
ParserRun(st, toks) ==
    IF Len(toks) = 0 THEN st
    ELSE ParserRun(ParserStep(st, toks[1]), Tail(toks))

Failed == [ok |-> FALSE, v |-> NaN]

\* the value of a token list that is one complete expression
EvalTokens(toks) ==
    LET st == ParserRun(ParserStart, toks)
        end == IF st.ok /\ ~st.operand THEN Unwind(st, 0) ELSE ParserFailed
    IN  IF end.ok /\ Len(end.ops) = 0 /\ Len(end.vals) = 1
        THEN [ok |-> TRUE, v |-> end.vals[1]]
        ELSE Failed

\* Function(`"use strict"; return (${expression})`)(): a SyntaxError or a
\* TypeError is Failed
RunExpression(expression) == EvalTokens(Lex(<<"(">> \o expression \o <<")">>))

-----------------------------------------------------------------------------
(* evaluateFormula.  A row is the list of its [key, val] entries in          *)
(* Object.keys order; a column mapping is the list of its entries in         *)
(* Object.entries order, [field, column, label] with hasColumn / hasLabel    *)
(* telling whether config.column / config.label are defined.                 *)

\* formula.match(/\{([^}]+)\}/g) || []: the matches left to right, each with
\* its braces
RECURSIVE ColumnRefs(_)
ColumnRefs(s) ==
    LET open == IndexOf(s, "{")
        close == IF open = 0 THEN 0 ELSE IndexOf(Drop(s, open), "}")
    IN  IF open = 0 \/ close = 0 THEN <<>>
        ELSE IF close = 1 THEN ColumnRefs(Drop(s, open))
        ELSE <<SubSeq(s, open, open + close)>> \o ColumnRefs(Drop(s, open + close))

\* row.hasOwnProperty(name)
HasOwnProperty(r, name) == \E i \in 1..Len(r) : r[i].key = name
OwnProperty(r, name) == r[CHOOSE i \in 1..Len(r) : r[i].key = name].val

\* the first key of Object.keys(row) equal to name up to case, 0 if none
CaseInsensitiveKey(r, name) ==
    LET hits == {i \in 1..Len(r) : ToLowerCase(r[i].key) = ToLowerCase(name)}
    IN  IF hits = {} THEN 0 ELSE CHOOSE i \in hits : \A j \in hits : i <= j

\* the first entry of the column mapping that names columnName by its
\* column, its label or its field, 0 if none
MappingEntry(mapping, columnName) ==
    LET hits == {i \in 1..Len(mapping) :
                    \/ mapping[i].hasColumn /\ mapping[i].column = columnName
                    \/ mapping[i].hasLabel /\ mapping[i].label = columnName
                    \/ mapping[i].field = columnName}
    IN  IF hits = {} THEN 0 ELSE CHOOSE i \in hits : \A j \in hits : i <= j

\* ColumnValue with the mapping consulted also when the key found holds no
\* number
ColumnValueFallback(columnName, r, mapping) ==
    LET direct ==
            IF HasOwnProperty(r, columnName)
            THEN ParseFloatCell(OwnProperty(r, columnName))
            ELSE LET i == CaseInsensitiveKey(r, columnName)
                 IN  IF i = 0 THEN Null ELSE ParseFloatCell(r[i].val)
        e == MappingEntry(mapping, columnName)
    IN  IF (direct = Null \/ IsNaN(direct)) /\ e # 0
        THEN LET actualColumn ==
                     IF mapping[e].hasColumn /\ Len(mapping[e].column) > 0
                     THEN mapping[e].column ELSE columnName
             IN  IF HasOwnProperty(r, actualColumn)
                 THEN ParseFloatCell(OwnProperty(r, actualColumn))
                 ELSE Null
        ELSE direct

\* the value a reference resolves to: Null where the code leaves value null
ColumnValue(columnName, r, mapping) ==
    LET direct ==
            IF HasOwnProperty(r, columnName)
            THEN ParseFloatCell(OwnProperty(r, columnName))
            ELSE LET i == CaseInsensitiveKey(r, columnName)
                 IN  IF i = 0 THEN Null ELSE ParseFloatCell(r[i].val)
        e == MappingEntry(mapping, columnName)
    IN  IF direct = Null /\ e # 0
        THEN LET actualColumn ==
                     IF mapping[e].hasColumn /\ Len(mapping[e].column) > 0
                     THEN mapping[e].column ELSE columnName
             IN  IF HasOwnProperty(r, actualColumn)
                 THEN ParseFloatCell(OwnProperty(r, actualColumn))
                 ELSE Null
        ELSE direct

\* ref.slice(1, -1).trim()
ColumnName(ref) == Trim(SubSeq(ref, 2, Len(ref) - 1))

\* the loop over columnRefs with an unresolved reference counted as 0
RECURSIVE SubstituteRefsOrZero(_, _, _, _)
SubstituteRefsOrZero(expression, refs, r, mapping) ==
    IF Len(refs) = 0 THEN [ok |-> TRUE, expression |-> expression]
    ELSE LET value == ColumnValue(ColumnName(refs[1]), r, mapping)
         IN  SubstituteRefsOrZero(
                 ReplaceAll(expression, refs[1],
                            IF value = Null \/ IsNaN(value) THEN <<"0">>
                            ELSE NumberToString(value)),
                 Tail(refs), r, mapping)

\* the loop over columnRefs: ok is FALSE when it returns null
RECURSIVE SubstituteRefs(_, _, _, _)
SubstituteRefs(expression, refs, r, mapping) ==
    IF Len(refs) = 0 THEN [ok |-> TRUE, expression |-> expression]
    ELSE LET value == ColumnValue(ColumnName(refs[1]), r, mapping)
         IN  IF value = Null \/ IsNaN(value)
             THEN [ok |-> FALSE, expression |-> expression]
             ELSE SubstituteRefs(
                      ReplaceAll(expression, refs[1], NumberToString(value)),
                      Tail(refs), r, mapping)

AllowedChars == {"+", "-", "*", "/", "(", ")", "."}

\* a character of the class [\d\s+\-*/().]
IsAllowedChar(c) == IsDigit(c) \/ IsSpace(c) \/ c = "\r" \/ c \in AllowedChars

\* /[\d\s+\-*/().]+/ without the anchors: some character is allowed
TestUnanchored(expression) ==
    \E i \in 1..Len(expression) : IsAllowedChar(expression[i])

\* /^[\d\s+\-*/().]+$/.test(expression)
TestWhitelist(expression) ==
    Len(expression) > 0 /\ \A i \in 1..Len(expression) : IsAllowedChar(expression[i])

FReturn(expression, executed, result) ==
    [pc |-> "done", expression |-> expression, executed |-> executed,
     result |-> result]

\* evaluateFormula without the isFinite test on the result
evaluateFormulaInfinite(f, r, mapping) ==
    IF Len(f) = 0 THEN FReturn(f, FALSE, Null)
    ELSE LET sub == SubstituteRefs(f, ColumnRefs(f), r, mapping)
         IN  IF ~sub.ok THEN FReturn(sub.expression, FALSE, Null)
             ELSE IF ~TestWhitelist(sub.expression)
             THEN FReturn(sub.expression, FALSE, Null)
             ELSE LET run == RunExpression(sub.expression)
                  IN  FReturn(sub.expression, TRUE,
                              IF run.ok /\ ~IsNaN(run.v) THEN run.v ELSE Null)

\* evaluateFormula(formula, row, columnMapping): the expression at the
\* return, whether it was handed to Function, and the value returned
evaluateFormula(f, r, mapping) ==
    IF Len(f) = 0 THEN FReturn(f, FALSE, Null)
    ELSE LET sub == SubstituteRefs(f, ColumnRefs(f), r, mapping)
         IN  IF ~sub.ok THEN FReturn(sub.expression, FALSE, Null)
             ELSE IF ~TestWhitelist(sub.expression)
             THEN FReturn(sub.expression, FALSE, Null)
             ELSE LET run == RunExpression(sub.expression)
                  IN  FReturn(sub.expression, TRUE,
                              IF run.ok /\ IsFinite(run.v) THEN run.v ELSE Null)

-----------------------------------------------------------------------------
(* detectColumnType *)

SampleSize == 20
ThresholdNum == 6
ThresholdDen == 10

\* String(value)
StringOf(value) ==
    CASE value.t = "str" -> value.str
      [] value.t = "num" -> NumberToString(value.num)
      [] value.t = "bool" ->
            IF value.num = Num(1) THEN <<"t", "r", "u", "e">>
            ELSE <<"f", "a", "l", "s", "e">>
      [] value.t = "null" -> <<"n", "u", "l", "l">>
      [] value.t = "undef" -> <<"u", "n", "d", "e", "f", "i", "n", "e", "d">>
      [] OTHER -> <<"[", "o", "b", "j", "e", "c", "t", " ", "O", "b", "j", "e", "c", "t", "]">>

\* v !== null && v !== undefined && v !== ''
IsSampled(v) == ~(v.t \in {"null", "undef"} \/ (v.t = "str" /\ Len(v.str) = 0))

\* the characters of the class [$€£¥]; YEN stands for the glyph U+00A5
CurrencyGlyphs == {"$", "EUR", "GBP", "YEN"}

IsLetter(c) == \E u \in 1..26 : c = UpperChars[u] \/ c = LowerChars[u]

SpaceRun(s) == Len(s) - Len(TrimLeft(s))

\* ^\d{lo1,hi1} sep \d{1,2} sep \d{lo3,}: the three numeric date patterns
MatchNumericDate(s, lo1, hi1, sep, lo3) ==
    LET k1 == DigitRun(s)
        rest1 == Drop(s, k1 + 1)
        k2 == DigitRun(rest1)
        rest2 == Drop(rest1, k2 + 1)
    IN  /\ k1 >= lo1 /\ k1 <= hi1
        /\ Len(s) > k1 /\ s[k1 + 1] = sep
        /\ k2 >= 1 /\ k2 <= 2
        /\ Len(rest1) > k2 /\ rest1[k2 + 1] = sep
        /\ DigitRun(rest2) >= lo3

\* /^[A-Za-z]{3}\s+\d{1,2},?\s+\d{4}/
MatchMonthName(s) ==
    LET rest0 == Drop(s, 3)
        w1 == SpaceRun(rest0)
        rest1 == Drop(rest0, w1)
        k == DigitRun(rest1)
        rest2 == Drop(rest1, k)
        rest3 == IF Len(rest2) > 0 /\ rest2[1] = "," THEN Tail(rest2) ELSE rest2
        w2 == SpaceRun(rest3)
    IN  /\ Len(s) >= 3 /\ IsLetter(s[1]) /\ IsLetter(s[2]) /\ IsLetter(s[3])
        /\ w1 >= 1
        /\ k >= 1 /\ k <= 2
        /\ w2 >= 1
        /\ DigitRun(Drop(rest3, w2)) >= 4

\* datePatterns.some(pattern => pattern.test(strValue))
MatchesDatePattern(s) ==
    \/ MatchNumericDate(s, 4, 4, "-", 1)
    \/ MatchNumericDate(s, 1, 2, "/", 2)
    \/ MatchNumericDate(s, 1, 2, "-", 2)
    \/ MatchMonthName(s)

\* the counter the loop body increments for one sampled value, "none" when
\* it increments no counter
CategoryOf(value) ==
    LET strValue == Trim(StringOf(value))
        isNumber == value.t = "num" /\ ~IsNaN(value.num)
    IN  IF \/ \E i \in 1..Len(strValue) : strValue[i] = "%"
           \/ isNumber /\ ~NumLess(value.num, Num(0)) /\ ~NumLess(Num(1), value.num)
        THEN "percentage"
        ELSE IF Len(strValue) > 0
                 /\ (strValue[1] \in CurrencyGlyphs
                         \/ strValue[Len(strValue)] \in CurrencyGlyphs)
        THEN "currency"
        ELSE IF isNumber /\ NumLess(Num(30000), value.num)
                 /\ NumLess(value.num, Num(50000))
        THEN "date"
        ELSE IF MatchesDatePattern(strValue) THEN "date"
        ELSE IF ~IsNaN(ParseFloat(SelectSeq(strValue, LAMBDA c : c \notin StrippedChars)))
        THEN "number"
        ELSE "none"

\* values.slice(0, sampleSize).filter(...)
SampleValues(values) ==
    SelectSeq(SubSeq(values, 1, IF Len(values) < SampleSize THEN Len(values)
                                ELSE SampleSize),
              IsSampled)

\* dateCount, percentCount, currencyCount, numberCount after the loop
CountOf(categories, category) ==
    Cardinality({i \in 1..Len(categories) : categories[i] = category})

\* the counter incremented for each sampled value
Categories(sampleValues) ==
    [i \in 1..Len(sampleValues) |-> CategoryOf(sampleValues[i])]

\* count / total >= threshold
ReachesThreshold(count, total) == count * ThresholdDen >= ThresholdNum * total

\* detectColumnType with the threshold to be exceeded
detectColumnTypeAbove(values) ==
    LET sampleValues == SampleValues(values)
        total == Len(sampleValues)
        categories == Categories(sampleValues)
        above(c) == CountOf(categories, c) * ThresholdDen > ThresholdNum * total
    IN  IF total = 0 THEN "text"
        ELSE IF above("date") THEN "date"
        ELSE IF above("percentage") THEN "percentage"
        ELSE IF above("currency") THEN "currency"
        ELSE IF above("number") THEN "number"
        ELSE "text"

detectColumnType(values) ==
    LET sampleValues == SampleValues(values)
        total == Len(sampleValues)
        categories == Categories(sampleValues)
    IN  IF total = 0 THEN "text"
        ELSE IF ReachesThreshold(CountOf(categories, "date"), total) THEN "date"
        ELSE IF ReachesThreshold(CountOf(categories, "percentage"), total)
        THEN "percentage"
        ELSE IF ReachesThreshold(CountOf(categories, "currency"), total)
        THEN "currency"
        ELSE IF ReachesThreshold(CountOf(categories, "number"), total)
        THEN "number"
        ELSE "text"

-----------------------------------------------------------------------------
(* autoDetectMappings.  Column names are character lists; columnTypes is a  *)
(* function from the column names to the detected types; the result is a    *)
(* function from the fields found to their columns.                         *)

\* String.prototype.includes
Includes(s, sub) ==
    \E i \in 1..(Len(s) - Len(sub) + 1) : SubSeq(s, i, i + Len(sub) - 1) = sub

DatePatterns ==
    {<<"d", "a", "t", "e">>,
     <<"t", "i", "m", "e">>,
     <<"d", "a", "y">>,
     <<"p", "e", "r", "i", "o", "d">>,
     <<"t", "i", "m", "e", "s", "t", "a", "m", "p">>}
SalesPatterns ==
    {<<"a", "t", "t", "r", "i", "b", "u", "t", "a", "b", "l", "e", " ", "s", "a", "l", "e", "s">>,
     <<"s", "a", "l", "e", "s">>,
     <<"r", "e", "v", "e", "n", "u", "e">>,
     <<"t", "o", "t", "a", "l", " ", "s", "a", "l", "e", "s">>,
     <<"a", "t", "t", "r", "i", "b", "u", "t", "e", "d", " ", "s", "a", "l", "e", "s">>}
CtrPatterns ==
    {<<"c", "t", "r">>,
     <<"c", "l", "i", "c", "k", " ", "t", "h", "r", "o", "u", "g", "h">>,
     <<"c", "l", "i", "c", "k", "t", "h", "r", "o", "u", "g", "h">>,
     <<"c", "l", "i", "c", "k", "-", "t", "h", "r", "o", "u", "g", "h">>,
     <<"c", "l", "i", "c", "k", " ", "r", "a", "t", "e">>}
ImpressionPatterns ==
    {<<"i", "m", "p", "r", "e", "s", "s", "i", "o", "n">>,
     <<"i", "m", "p", "r">>,
     <<"v", "i", "e", "w", "s">>,
     <<"r", "e", "a", "c", "h">>}
ClickPatterns ==
    {<<"c", "l", "i", "c", "k">>,
     <<"c", "l", "k">>}
SpendPatterns ==
    {<<"s", "p", "e", "n", "d">>,
     <<"c", "o", "s", "t">>,
     <<"b", "u", "d", "g", "e", "t">>,
     <<"a", "d", " ", "s", "p", "e", "n", "d">>}

\* the fields in the order autoDetectMappings looks for them
MappedFields == <<"date", "attributableSales", "ctr", "impressions", "clicks", "spend">>

IncludesSome(col, patterns) == \E pat \in patterns : Includes(col, pat)

\* the test of the loop of one field on column i
FieldMatches(field, columns, lowerColumns, columnTypes, i) ==
    LET col == lowerColumns[i]
    IN  CASE field = "date" ->
                columnTypes[columns[i]] = "date" \/ IncludesSome(col, DatePatterns)
          [] field = "attributableSales" -> IncludesSome(col, SalesPatterns)
          [] field = "ctr" -> IncludesSome(col, CtrPatterns)
          [] field = "impressions" -> IncludesSome(col, ImpressionPatterns)
          [] field = "clicks" ->
                /\ IncludesSome(col, ClickPatterns)
                /\ ~Includes(col, <<"r", "a", "t", "e">>)
                /\ ~Includes(col, <<"t", "h", "r", "o", "u", "g", "h">>)
          [] OTHER -> IncludesSome(col, SpendPatterns)

\* the indexes of the columns the loop of the field accepts
MatchingColumns(field, columns, lowerColumns, columnTypes) ==
    {i \in 1..Len(columns) : FieldMatches(field, columns, lowerColumns, columnTypes, i)}

\* columns.map(c => c.toLowerCase())
LowerColumns(columns) == [i \in 1..Len(columns) |-> ToLowerCase(columns[i])]

Least(S) == CHOOSE i \in S : \A j \in S : i <= j
Greatest(S) == CHOOSE i \in S : \A j \in S : i >= j

\* autoDetectMappings without the break: the last match wins
autoDetectMappingsLast(columns, columnTypes) ==
    LET lowerColumns == LowerColumns(columns)
        matching == [k \in 1..6 |->
                        MatchingColumns(MappedFields[k], columns, lowerColumns, columnTypes)]
        found == {k \in 1..6 : matching[k] # {}}
    IN  [f \in {MappedFields[k] : k \in found} |->
            columns[Greatest(matching[CHOOSE k \in found : MappedFields[k] = f])]]

autoDetectMappings(columns, columnTypes) ==
    LET lowerColumns == LowerColumns(columns)
        matching == [k \in 1..6 |->
                        MatchingColumns(MappedFields[k], columns, lowerColumns, columnTypes)]
        found == {k \in 1..6 : matching[k] # {}}
    IN  [f \in {MappedFields[k] : k \in found} |->
            columns[Least(matching[CHOOSE k \in found : MappedFields[k] = f])]]

-----------------------------------------------------------------------------
(* useFileParser.  A file is what XLSX.read and sheet_to_json make of it:   *)
(* kind "sheet" with the header names and the cells of each column, kind    *)
(* "empty" for a sheet without data rows, kind "invalid" when XLSX.read     *)
(* throws.                                                                  *)

NoMappings == [f \in {} |-> <<>>]

NoFile == [kind |-> "none", names |-> <<>>, cells |-> <<>>]

\* the state of the hook after useState / reset; call tells where the call
\* of parseFile stands
ParserReset ==
    [call |-> "idle", isLoading |-> FALSE, error |-> FALSE, parsedData |-> NoFile,
     columns |-> <<>>, columnTypes |-> NoMappings, suggestedMappings |-> NoMappings,
     needsMapping |-> FALSE]

\* !hasDate alone
NeedsMappingDateOnly(mappings) == "date" \notin DOMAIN mappings

\* !hasDate || !hasMetric; column names are never empty
NeedsMapping(mappings) ==
    \/ "date" \notin DOMAIN mappings
    \/ DOMAIN mappings \cap {"attributableSales", "ctr", "impressions"} = {}

\* types[col] = detectColumnType(jsonData.map(row => row[col]))
ColumnTypesOf(f) ==
    [name \in {f.names[i] : i \in 1..Len(f.names)} |->
        detectColumnType(f.cells[CHOOSE i \in 1..Len(f.names) : f.names[i] = name])]

-----------------------------------------------------------------------------
(* evaluateFormula: idle state *)

FIdle == [pc |-> "idle", expression |-> <<>>, executed |-> FALSE, result |-> Null]

\* parseDate / parseNumericValue: not called yet
PIdle == [pc |-> "idle", date |-> NoDate, number |-> Null]
ParseIdle == pvalue = NullCell /\ presult = PIdle

\* detectColumnType: not called yet
DetectIdle == dvalues = <<>> /\ dtype = "idle"

\* useFileParser: no file chosen
ParserIdle == file = NoFile /\ parser = ParserReset


\* App: the state after useState (confirmedMappings null, mapper closed);
\* <<>> stands for null and <<m>> for the mapping m; aggregatorMapping is
\* the mapping last handed to useDataAggregator by a chart, and onConfirm
\* tells whether handleMappingConfirm was called for the dataset
AppReset ==
    [showMapper |-> FALSE, confirmedMappings |-> <<>>,
     aggregatorMapping |-> <<>>, onConfirm |-> FALSE]

AppIdle == app = AppReset


\* useConfigStorage: nothing stored under rv_configs, no call made
NoConfigs == [n \in {} |-> <<>>]
ConfigNames == {<<"a">>, <<"b">>, <<"c", "o", "n", "s", "t", "r", "u", "c", "t", "o", "r">>}
NeverSaved == [state |-> "none", mappings |-> <<>>, charts |-> <<>>]
NoCall == [op |-> "none", name |-> <<>>, result |-> FALSE, loaded |-> <<>>]
ConfigIdle ==
    /\ storage = NoConfigs
    /\ clock = 0
    /\ expected = [n \in ConfigNames |-> NeverSaved]
    /\ configCall = NoCall


\* EngagementChart.chartData: no formula applied yet
NoPoint == [set |-> FALSE, value |-> Null]
ChartDataIdle == chartPoint = NoPoint

\* useDataAggregator not rendered, evaluateFormula not called
AggIdle ==
    /\ rawData = <<>>
    /\ columnMapping = DatedMapping
    /\ granularity = "monthly"
    /\ metrics = <<>>
    /\ aggregatedData = [computed |-> FALSE, rows |-> <<>>]
    /\ previousData = [computed |-> FALSE, rows |-> <<>>]

FormulaIdle == formula = <<>> /\ row = <<>> /\ fmapping = <<>> /\ fstate = FIdle


\* getMetricTotal not called
NoTotal == [called |-> FALSE, field |-> "", aggregationType |-> "", value |-> Null]
TotalIdle == metricTotal = NoTotal


\* no chart mounted
NoChart == [component |-> "", selectedMetrics |-> <<>>, hiddenMetrics |-> {}]
ChartIdle == chart = NoChart


\* no call of parseFile in flight
CallsIdle == calls = <<>>

-----------------------------------------------------------------------------
(* A chart component renders: useDataAggregator is called with the props   *)
(* and state of the component, and the memo aggregatedData is computed.     *)

Init ==
    /\ rawData \in DataSets
    /\ columnMapping \in MappingDomain
    /\ granularity \in Granularities
    /\ metrics \in {ms \in MetricLists : Len(ms) = 0 \/ ms = <<SalesSum>>}
    /\ aggregatedData = [computed |-> FALSE, rows |-> <<>>]
    /\ previousData = [computed |-> FALSE, rows |-> <<>>]
    /\ formula = <<>>
    /\ row = <<>>
    /\ fmapping = <<>>
    /\ fstate = FIdle
    /\ ParseIdle
    /\ DetectIdle
    /\ ParserIdle
    /\ AppIdle
    /\ ConfigIdle
    /\ ChartDataIdle
    /\ TotalIdle
    /\ ChartIdle
    /\ CallsIdle

\* the same with every list of metrics, on rows whose date parses
InitMetrics ==
    /\ rawData \in MetricDataSets
    /\ columnMapping = DatedMapping
    /\ granularity \in Granularities
    /\ metrics \in MetricLists
    /\ aggregatedData = [computed |-> FALSE, rows |-> <<>>]
    /\ previousData = [computed |-> FALSE, rows |-> <<>>]
    /\ formula = <<>>
    /\ row = <<>>
    /\ fmapping = <<>>
    /\ fstate = FIdle
    /\ ParseIdle
    /\ DetectIdle
    /\ ParserIdle
    /\ AppIdle
    /\ ConfigIdle
    /\ ChartDataIdle
    /\ TotalIdle
    /\ ChartIdle
    /\ CallsIdle

\* the useMemo callback of aggregatedData runs
Aggregate ==
    /\ ~aggregatedData.computed
    /\ aggregatedData' =
           [computed |-> TRUE,
            rows |-> aggregate(rawData, columnMapping, granularity, metrics)]
    /\ UNCHANGED <<rawData, columnMapping, granularity, metrics, previousData,
                   formulaVars, parseVars, detectVars, parserVars, appVars, configVars, chartDataVars, totalVars, chartVars, callVars>>

Next == Aggregate

Spec == Init /\ [][Next]_vars

SpecMetrics == InitMetrics /\ [][Next]_vars

\* the callback runs once more on the same rawData, columnMapping,
\* granularity and metrics, as the first call left them
AggregateAgain ==
    /\ aggregatedData.computed
    /\ ~previousData.computed
    /\ previousData' = aggregatedData
    /\ aggregatedData' =
           [computed |-> TRUE,
            rows |-> aggregate(rawData, columnMapping, granularity, metrics)]
    /\ UNCHANGED <<rawData, columnMapping, granularity, metrics,
                   formulaVars, parseVars, detectVars, parserVars, appVars, configVars, chartDataVars, totalVars, chartVars, callVars>>

\* rows of January 2024 whose amounts are 2^28, -2^28 and 2^-28, and a row
\* of April
PermuteRowDomain ==
    { MkRow(StrCell(Slash20240401), NumCell(Num(100))),
      MkRow(StrCell(Iso20240115), NumCell(Fin(1, TwoTo28, 1))),
      MkRow(StrCell(Iso20240115), NumCell(Fin(-1, TwoTo28, 1))),
      MkRow(StrCell(Iso20240101), NumCell(Fin(1, 1, TwoTo28))) }

\* the orders of n rows
RowOrders(n) ==
    {p \in [1..n -> 1..n] : \A i, j \in 1..n : i # j => p[i] # p[j]}

InitPermute ==
    /\ rawData \in SeqsUpTo(PermuteRowDomain, MaxRows)
    /\ columnMapping = DatedMapping
    /\ granularity \in Granularities
    /\ metrics \in {ms \in MetricLists :
                       /\ Len(ms) <= 1
                       /\ \A i \in 1..Len(ms) : ms[i].aggregationType # "average"}
    /\ aggregatedData = [computed |-> FALSE, rows |-> <<>>]
    /\ previousData = [computed |-> FALSE, rows |-> <<>>]
    /\ FormulaIdle
    /\ ParseIdle
    /\ DetectIdle
    /\ ParserIdle
    /\ AppIdle
    /\ ConfigIdle
    /\ ChartDataIdle
    /\ TotalIdle
    /\ ChartIdle
    /\ CallsIdle

\* the component is rendered again with the same rows in another order: the
\* callback runs on the new array
AggregatePermuted ==
    /\ aggregatedData.computed
    /\ ~previousData.computed
    /\ \E p \in RowOrders(Len(rawData)) :
           rawData' = [i \in 1..Len(rawData) |-> rawData[p[i]]]
    /\ previousData' = aggregatedData
    /\ aggregatedData' =
           [computed |-> TRUE,
            rows |-> aggregate(rawData', columnMapping, granularity, metrics)]
    /\ UNCHANGED <<columnMapping, granularity, metrics,
                   formulaVars, parseVars, detectVars, parserVars, appVars, configVars, chartDataVars, totalVars, chartVars, callVars>>

NextPermute == Aggregate \/ AggregatePermuted

SpecPermute == InitPermute /\ [][NextPermute]_vars

\* a chart component hands over a granularity string of its own: one of
\* GRANULARITY, or another one
GranularityDomain == Granularities \cup {"weekly"}

InitGranularity ==
    /\ rawData \in MetricDataSets
    /\ columnMapping = DatedMapping
    /\ granularity \in GranularityDomain
    /\ metrics \in {<<>>, <<SalesSum>>}
    /\ aggregatedData = [computed |-> FALSE, rows |-> <<>>]
    /\ previousData = [computed |-> FALSE, rows |-> <<>>]
    /\ formula = <<>>
    /\ row = <<>>
    /\ fmapping = <<>>
    /\ fstate = FIdle
    /\ ParseIdle
    /\ DetectIdle
    /\ ParserIdle
    /\ AppIdle
    /\ ConfigIdle
    /\ ChartDataIdle
    /\ TotalIdle
    /\ ChartIdle
    /\ CallsIdle

SpecGranularity == InitGranularity /\ [][Next]_vars

\* getMetricTotal reducing the values of the raw rows in the field's column
getMetricTotalOfRows(field, aggregationType) ==
    aggregateValues(
        MetricValues(rawData, IF HasMapping(columnMapping, field)
                              THEN columnMapping[field] ELSE field),
        aggregationType)

\* getMetricTotal(field, aggregationType): the values of the field over the
\* aggregated rows that have it (v !== undefined), reduced by aggregateValues
getMetricTotal(field, aggregationType) ==
    LET carrying == SelectSeq(aggregatedData.rows, LAMBDA r : field \in DOMAIN r)
    IN  aggregateValues([i \in 1..Len(carrying) |-> carrying[i][field]],
                        aggregationType)

\* the fields a chart asks the total of: those of its metrics, and one no
\* metric has
TotalFields == {"sales", "amount", "clicks"}

\* a chart calls getMetricTotal of the hook it rendered
GetMetricTotal ==
    /\ aggregatedData.computed
    /\ ~metricTotal.called
    /\ \E field \in TotalFields, aggregationType \in AggregationTypes :
           metricTotal' = [called |-> TRUE, field |-> field,
                           aggregationType |-> aggregationType,
                           value |-> getMetricTotal(field, aggregationType)]
    /\ UNCHANGED <<aggVars, formulaVars, parseVars, detectVars, parserVars, appVars, configVars, chartDataVars, chartVars, callVars>>

NextTotal == Aggregate \/ GetMetricTotal

SpecTotal == InitMetrics /\ [][NextTotal]_vars

-----------------------------------------------------------------------------
(* The metrics of a chart: the selector of ChartCard and the legend *)

MaxChartMetrics == 3

MetricFields == <<"ctr", "clicks", "sales", "amount", "cost", "impressions">>

\* the metrics the selector offers
availableMetrics == SubSeq(MetricFields, 1, MaxChartMetrics)

Fields(s) == {s[i] : i \in 1..Len(s)}

\* EngagementChart mounts with the first available metric selected, a
\* CustomChart with the selectedFields of its configuration
InitChart ==
    /\ AggIdle
    /\ FormulaIdle
    /\ ParseIdle
    /\ DetectIdle
    /\ ParserIdle
    /\ AppIdle
    /\ ConfigIdle
    /\ ChartDataIdle
    /\ TotalIdle
    /\ CallsIdle
    /\ \/ chart = [component |-> "EngagementChart",
                   selectedMetrics |-> <<availableMetrics[1]>>,
                   hiddenMetrics |-> {}]
       \/ \E f \in Fields(availableMetrics) :
              chart = [component |-> "CustomChart",
                       selectedMetrics |-> <<f>>,
                       hiddenMetrics |-> {}]

\* ChartCard.handleMetricToggle(metric) with onMetricsChange storing the list
handleMetricToggle(selectedMetrics, metric) ==
    IF metric \in Fields(selectedMetrics)
    THEN IF Len(selectedMetrics) > 1
         THEN SelectSeq(selectedMetrics, LAMBDA m : m # metric)
         ELSE selectedMetrics
    ELSE Append(selectedMetrics, metric)

\* handleLegendClick(entry): the new hiddenMetrics
handleLegendClick(selectedMetrics, hiddenMetrics, field) ==
    IF field \in hiddenMetrics
    THEN hiddenMetrics \ {field}
    ELSE IF Len(selectedMetrics) - Cardinality(hiddenMetrics) > 1
         THEN hiddenMetrics \cup {field}
         ELSE hiddenMetrics

\* a click on a metric of the selector
MetricToggle ==
    /\ chart.component # ""
    /\ \E metric \in Fields(availableMetrics) :
           chart' = [chart EXCEPT !.selectedMetrics =
                                      handleMetricToggle(chart.selectedMetrics, metric)]
    /\ UNCHANGED <<aggVars, formulaVars, parseVars, detectVars, parserVars, appVars, configVars, chartDataVars, totalVars, callVars>>

\* a click on a legend entry; the legend has one entry per selected metric
LegendClick ==
    /\ chart.component # ""
    /\ \E field \in Fields(chart.selectedMetrics) :
           chart' = [chart EXCEPT !.hiddenMetrics =
                                      handleLegendClick(chart.selectedMetrics,
                                                        chart.hiddenMetrics, field)]
    /\ UNCHANGED <<aggVars, formulaVars, parseVars, detectVars, parserVars, appVars, configVars, chartDataVars, totalVars, callVars>>

NextChart == MetricToggle \/ LegendClick

SpecChart == InitChart /\ [][NextChart]_vars


NextTwice == Aggregate \/ AggregateAgain

SpecTwice == Init /\ [][NextTwice]_vars

-----------------------------------------------------------------------------
(* Formulas, rows and column mappings evaluateFormula is called with *)

Chars_a == <<"a">>
Chars_b == <<"b">>
Chars_A == <<"A">>
Chars_B == <<"B">>
Chars_amount == <<"a", "m", "o", "u", "n", "t">>
Chars_sales == <<"s", "a", "l", "e", "s">>
Chars_Sales == <<"S", "a", "l", "e", "s">>

\* {a} + {b}
FormulaSum == <<"{", "a", "}", " ", "+", " ", "{", "b", "}">>
\* {a}-{b}
FormulaDiff == <<"{", "a", "}", "-", "{", "b", "}">>
\* {a} - {b}
FormulaSpacedDiff == <<"{", "a", "}", " ", "-", " ", "{", "b", "}">>
\* -{b}
FormulaNegate == <<"-", "{", "b", "}">>
\* {a}; DROP TABLE
FormulaInjection == <<"{", "a", "}", ";", " ", "D", "R", "O", "P", " ", "T", "A", "B", "L", "E">>
\* {a} + {missing}
FormulaMissing == <<"{", "a", "}", " ", "+", " ", "{", "m", "i", "s", "s", "i", "n", "g", "}">>
\* {a} / {b} * 100
FormulaRatio == <<"{", "a", "}", " ", "/", " ", "{", "b", "}", " ", "*", " ", "1", "0", "0">>
\* ({a} + {b}) * 2
FormulaParens == <<"(", "{", "a", "}", " ", "+", " ", "{", "b", "}", ")", " ", "*", " ", "2">>
\* {A} * {B}
FormulaUpper == <<"{", "A", "}", " ", "*", " ", "{", "B", "}">>
\* a single space
FormulaBlank == <<" ">>
\* {a} {b}
FormulaJuxtaposed == <<"{", "a", "}", " ", "{", "b", "}">>
\* 2 * 3.5
FormulaLiteral == <<"2", " ", "*", " ", "3", ".", "5">>
\* {Sales} - {a}
FormulaMapped == <<"{", "S", "a", "l", "e", "s", "}", " ", "-", " ", "{", "a", "}">>
\* the empty string
FormulaEmpty == <<>>
\* {a
FormulaUnclosed == <<"{", "a">>
\* {a} ** {b}
FormulaPower == <<"{", "a", "}", " ", "*", "*", " ", "{", "b", "}">>
\* {a} // {b}
FormulaComment == <<"{", "a", "}", " ", "/", "/", " ", "{", "b", "}">>
\* { a } + 1
FormulaPadded == <<"{", " ", "a", " ", "}", " ", "+", " ", "1">>
\* {a} + 010
FormulaOctal == <<"{", "a", "}", " ", "+", " ", "0", "1", "0">>
\* {} + 1
FormulaEmptyRef == <<"{", "}", " ", "+", " ", "1">>

FormulaDomain ==
    {FormulaSum, FormulaDiff, FormulaSpacedDiff, FormulaNegate,
     FormulaInjection, FormulaMissing, FormulaRatio, FormulaParens,
     FormulaUpper, FormulaBlank, FormulaJuxtaposed, FormulaLiteral,
     FormulaMapped, FormulaEmpty, FormulaUnclosed, FormulaPower,
     FormulaComment, FormulaPadded, FormulaOctal, FormulaEmptyRef}

Entry(key, val) == [key |-> key, val |-> val]

RowExample == <<Entry(Chars_a, NumCell(Num(2))), Entry(Chars_b, NumCell(Num(3)))>>
RowNegative == <<Entry(Chars_a, NumCell(Num(2))), Entry(Chars_b, NumCell(Num(-3)))>>
RowZero == <<Entry(Chars_a, NumCell(Num(5))), Entry(Chars_b, NumCell(Num(0)))>>
RowZeros == <<Entry(Chars_a, NumCell(Num(0))), Entry(Chars_b, NumCell(Num(0)))>>
RowStrings ==
    <<Entry(Chars_a, StrCell(<<"1", "2", ".", "5">>)),
      Entry(Chars_b, StrCell(<<"3", "k", "g">>))>>
RowTiny ==
    <<Entry(Chars_a, StrCell(<<"0", ".", "0", "0", "0", "0", "0", "0", "1">>)),
      Entry(Chars_b, NumCell(Num(4)))>>
RowInvalid == <<Entry(Chars_a, NullCell), Entry(Chars_b, StrCell(<<"a", "b", "c">>))>>
RowUpper ==
    <<Entry(Chars_A, NumCell(Num(7))), Entry(Chars_B, StrCell(<<"-", "2">>))>>
RowMapped == <<Entry(Chars_amount, NumCell(Num(10))), Entry(Chars_a, NumCell(Num(4)))>>

FormulaRowDomain ==
    {RowExample, RowNegative, RowZero, RowZeros, RowStrings, RowTiny, RowInvalid,
     RowUpper, RowMapped}

SalesMapping ==
    <<[field |-> Chars_sales, column |-> Chars_amount, label |-> Chars_Sales,
       hasColumn |-> TRUE, hasLabel |-> TRUE]>>

FormulaMappingDomain == {<<>>, SalesMapping}

\* a custom field of a chart is about to be computed for one row
InitFormula ==
    /\ rawData = <<>>
    /\ columnMapping = DatedMapping
    /\ granularity = "monthly"
    /\ metrics = <<>>
    /\ aggregatedData = [computed |-> FALSE, rows |-> <<>>]
    /\ previousData = [computed |-> FALSE, rows |-> <<>>]
    /\ formula \in FormulaDomain
    /\ row \in FormulaRowDomain
    /\ fmapping \in FormulaMappingDomain
    /\ fstate = FIdle
    /\ ParseIdle
    /\ DetectIdle
    /\ ParserIdle
    /\ AppIdle
    /\ ConfigIdle
    /\ ChartDataIdle
    /\ TotalIdle
    /\ ChartIdle
    /\ CallsIdle

\* evaluateFormula(formula, row, columnMapping) is called and returns
Evaluate ==
    /\ fstate.pc = "idle"
    /\ fstate' = evaluateFormula(formula, row, fmapping)
    /\ UNCHANGED <<formula, row, fmapping, aggVars, parseVars, detectVars, parserVars, appVars, configVars, chartDataVars, totalVars, chartVars, callVars>>

NextFormula == Evaluate

SpecFormula == InitFormula /\ [][NextFormula]_vars

\* value || 0: null, NaN and the zeros are falsy
OrZero(value) ==
    IF value = Null \/ IsNaN(value) \/ IsZero(value) THEN Num(0) ELSE value

\* EngagementChart.chartData, for one row of baseChartData and one metric
\* with a formula (m.formula is truthy):
\* newRow[metric.field] = evaluateFormula(...) || 0
ApplyFormula ==
    /\ fstate.pc = "idle"
    /\ Len(formula) > 0
    /\ fstate' = evaluateFormula(formula, row, fmapping)
    /\ chartPoint' = [set |-> TRUE,
                      value |-> OrZero(fstate'.result)]
    /\ UNCHANGED <<formula, row, fmapping, aggVars, parseVars, detectVars, parserVars, appVars, configVars, totalVars, chartVars, callVars>>

NextChartData == ApplyFormula

SpecChartData == InitFormula /\ [][NextChartData]_vars

\* formulas of one reference, on rows whose keys differ by case only or are
\* named by a mapping entry
FormulaRef_a == <<"{", "a", "}">>
FormulaRef_A == <<"{", "A", "}">>
FormulaRef_sales == <<"{", "s", "a", "l", "e", "s", "}">>
FormulaRef_Sales == <<"{", "S", "a", "l", "e", "s", "}">>

ResolveKeys == {Chars_a, Chars_A, Chars_amount}
ResolveCells == {NumCell(Num(2)), NumCell(Num(7)), StrCell(<<"a", "b", "c">>)}

\* rows: every order of one, two or three of the keys, with every cell
ResolveRows ==
    {r \in SeqsUpTo([key : ResolveKeys, val : ResolveCells], Cardinality(ResolveKeys)) :
        Len(r) > 0 /\ \A i, j \in 1..Len(r) : i # j => r[i].key # r[j].key}

\* a mapping whose field a, labelled A, is the column amount
AmountMapping ==
    <<[field |-> Chars_a, column |-> Chars_amount, label |-> Chars_A,
       hasColumn |-> TRUE, hasLabel |-> TRUE]>>

InitResolve ==
    /\ AggIdle
    /\ formula \in {FormulaRef_a, FormulaRef_A, FormulaRef_sales, FormulaRef_Sales}
    /\ row \in ResolveRows
    /\ fmapping \in {<<>>, SalesMapping, AmountMapping}
    /\ fstate = FIdle
    /\ ParseIdle
    /\ DetectIdle
    /\ ParserIdle
    /\ AppIdle
    /\ ConfigIdle
    /\ ChartDataIdle
    /\ TotalIdle
    /\ ChartIdle
    /\ CallsIdle

SpecResolve == InitResolve /\ [][NextFormula]_vars

-----------------------------------------------------------------------------
(* parseDate and parseNumericValue called on one cell of the sheet.  The    *)
(* cells are those sheet_to_json produces with raw: true, defval: null      *)
(* (numbers, strings, booleans, null), the values a caller may pass beside  *)
(* them (undefined, NaN, the infinities, an object), and texts of a CSV.    *)

\* the serial numbers of the dates a sheet holds
SerialDomain == 30000..50000

\* numbers
NumberCells ==
    {NumCell(Num(n)) : n \in SerialDomain \cup {-1, 0, 1, 59, 60, 61, 100, 250, 3000}}
        \cup {NumCell(SerialNoon20240101), NumCell(Fin(1, 1, 2)),
              NumCell(Fin(-1, 5, 2)), NumCell(NaN), NumCell(Inf(1)), NumCell(Inf(-1))}

\* values that are neither numbers nor strings
OtherCells == {NullCell, UndefCell, BoolCell(TRUE), BoolCell(FALSE), ObjCell}

\* texts parseDate is given: ISO dates, M/D/YYYY, and texts no engine reads
\* as a date
DateTexts ==
    {StrCell(s) : s \in {Iso20240101, Iso20240115, Iso20230115, Slash20240401,
                         NotADate, <<>>}}

\* texts parseNumericValue is given; EUR, GBP and YEN stand for the glyphs
\* U+20AC, U+00A3 and U+00A5
NumericTexts ==
    {StrCell(s) : s \in
        {<<"$", "1", "0", "0">>, <<"$", "2", "5", "0">>,
         <<"$", "3", ",", "0", "0", "0">>, <<"$", "1", ",", "2", "3", "4", ".", "5", "0">>,
         <<"EUR", "4", "0">>, <<"4", "0", "EUR">>, <<"GBP", "2", ".", "5">>,
         <<"YEN", "1", "0", "0">>, <<"1", "0", "0", "YEN">>,
         <<"1", "2", ".", "5", "$">>, <<"$", "a", "b", "c">>, <<"$">>,
         <<"4", "5", "%">>, <<"$", "5", "%">>, <<"1", "2", ".", "5">>,
         <<"-", "7">>, <<" ", "8", " ">>, <<"a", "b", "c">>, <<"3", "k", "g">>,
         InfinityChars, NotADate, <<>>}}

DateValueDomain == NumberCells \cup OtherCells \cup DateTexts
NumericValueDomain == NumberCells \cup OtherCells \cup NumericTexts

InitParse ==
    /\ AggIdle
    /\ FormulaIdle
    /\ pvalue \in DateValueDomain \cup NumericValueDomain
    /\ DetectIdle
    /\ ParserIdle
    /\ AppIdle
    /\ ConfigIdle
    /\ ChartDataIdle
    /\ TotalIdle
    /\ ChartIdle
    /\ CallsIdle
    /\ presult = PIdle

\* parseDate(value) is called and returns
CallParseDate ==
    /\ presult.pc = "idle"
    /\ pvalue \in DateValueDomain
    /\ presult' = [pc |-> "parseDate", date |-> parseDate(pvalue), number |-> Null]
    /\ UNCHANGED <<pvalue, aggVars, formulaVars, detectVars, parserVars, appVars, configVars, chartDataVars, totalVars, chartVars, callVars>>

\* parseNumericValue(value) is called and returns
CallParseNumericValue ==
    /\ presult.pc = "idle"
    /\ pvalue \in NumericValueDomain
    /\ presult' = [pc |-> "parseNumericValue", date |-> NoDate,
                   number |-> parseNumericValue(pvalue)]
    /\ UNCHANGED <<pvalue, aggVars, formulaVars, detectVars, parserVars, appVars, configVars, chartDataVars, totalVars, chartVars, callVars>>

NextParse == CallParseDate \/ CallParseNumericValue

SpecParse == InitParse /\ [][NextParse]_vars

-----------------------------------------------------------------------------
(* detectColumnType called on the cells of one column *)

MaxValues == 5
MaxMixed == 2

Pct45 == StrCell(<<"4", "5", "%">>)
Usd100 == StrCell(<<"$", "1", "0", "0">>)
Usd250 == StrCell(<<"$", "2", "5", "0">>)
Usd3000 == StrCell(<<"$", "3", ",", "0", "0", "0">>)
Text == StrCell(<<"a", "b", "c">>)

\* one value of each category and a text
CoreValues == {Pct45, Usd100, NumCell(Num(45292)), NumCell(Num(250)), Text}

\* the other ways into each category
MixedValues ==
    {NullCell, StrCell(<<>>), UndefCell, NumCell(Fin(1, 1, 2)), NumCell(Num(30000)),
     StrCell(Iso20240115), StrCell(Slash20240401),
     StrCell(<<"J", "a", "n", " ", "5", ",", " ", "2", "0", "2", "4">>),
     StrCell(<<"1", "5", "-", "0", "1", "-", "2", "4">>),
     StrCell(<<"1", "0", "0", "YEN">>), StrCell(<<"$", "5", "%">>),
     StrCell(<<"1", ",", "2", "0", "0">>), BoolCell(TRUE), Usd250, Text}

\* v repeated n times
Repeat(v, n) == [i \in 1..n |-> v]

\* columns longer than the sample
LongColumns ==
    {Repeat(NullCell, SampleSize) \o <<Usd100>>,
     Repeat(Usd100, SampleSize) \o <<Text, Text>>,
     Repeat(Text, 9) \o Repeat(NumCell(Num(250)), 11) \o Repeat(NumCell(Num(250)), 7),
     Repeat(Text, 8) \o Repeat(NumCell(Num(45292)), 12) \o Repeat(Text, 12),
     <<NullCell, Usd100, Usd100, StrCell(<<>>), Usd250, Text, NumCell(Num(250))>>}

ColumnDomain ==
    SeqsUpTo(CoreValues, MaxValues) \cup SeqsUpTo(MixedValues, MaxMixed)
        \cup LongColumns \cup {<<Usd100, Usd250, Usd3000>>}

InitDetect ==
    /\ AggIdle
    /\ FormulaIdle
    /\ ParseIdle
    /\ dvalues \in ColumnDomain
    /\ ParserIdle
    /\ AppIdle
    /\ ConfigIdle
    /\ ChartDataIdle
    /\ TotalIdle
    /\ ChartIdle
    /\ CallsIdle
    /\ dtype = "idle"

\* detectColumnType(values) is called and returns
Detect ==
    /\ dtype = "idle"
    /\ dtype' = detectColumnType(dvalues)
    /\ UNCHANGED <<dvalues, aggVars, formulaVars, parseVars, parserVars, appVars, configVars, chartDataVars, totalVars, chartVars, callVars>>

NextDetect == Detect

SpecDetect == InitDetect /\ [][NextDetect]_vars

-----------------------------------------------------------------------------
(* parseFile called on one file *)

MaxColumns == 3

NameDay == <<"D", "a", "y">>
NameUpdated == <<"U", "p", "d", "a", "t", "e", "d">>
NameSales == <<"S", "a", "l", "e", "s">>
NameClickRate == <<"C", "l", "i", "c", "k", " ", "R", "a", "t", "e">>
NameClicks == <<"C", "l", "i", "c", "k", "s">>
NameImpr == <<"I", "m", "p", "r">>
NameCost == <<"C", "o", "s", "t">>
NameItem == <<"I", "t", "e", "m">>

ColumnNames ==
    {NameDay, NameUpdated, NameSales, NameClickRate, NameClicks,
     NameImpr, NameCost, NameItem}

\* the cells of a column of serial dates and of a column of amounts
SerialColumn == <<NumCell(Num(45292)), NumCell(Num(45293))>>
AmountColumn == <<NumCell(Num(250)), NumCell(Num(100))>>

\* headers are the keys of an object: no name twice
HeaderLists ==
    {h \in SeqsUpTo(ColumnNames, MaxColumns) :
        Len(h) > 0 /\ \A i, j \in 1..Len(h) : i # j => h[i] # h[j]}

\* sheets of amounts with at most one column of serial dates (column 0: none)
Sheets ==
    {[kind |-> "sheet", names |-> h,
      cells |-> [i \in 1..Len(h) |-> IF i = d THEN SerialColumn ELSE AmountColumn]] :
        h \in HeaderLists, d \in 0..MaxColumns}

FileDomain ==
    Sheets \cup {[kind |-> "empty", names |-> <<>>, cells |-> <<>>],
                 [kind |-> "invalid", names |-> <<>>, cells |-> <<>>]}

InitParseFile ==
    /\ AggIdle
    /\ FormulaIdle
    /\ ParseIdle
    /\ DetectIdle
    /\ file \in FileDomain
    /\ parser = ParserReset
    /\ AppIdle
    /\ ConfigIdle
    /\ ChartDataIdle
    /\ TotalIdle
    /\ ChartIdle
    /\ CallsIdle

\* parseFile(file) up to its first await: setIsLoading(true), setError(null)
ParseEntered == [parser EXCEPT !.call = "running", !.isLoading = TRUE, !.error = FALSE]

StartParse ==
    /\ parser.call = "idle"
    /\ file.kind # "none"
    /\ parser' = ParseEntered
    /\ UNCHANGED <<file, aggVars, formulaVars, parseVars, detectVars, appVars, configVars, chartDataVars, totalVars, chartVars, callVars>>

\* the rest of parseFile: the state of a successful parse is set and the
\* result returned, or the error is set and thrown; finally isLoading is
\* false
FinishParse ==
    /\ parser.call = "running"
    /\ IF file.kind = "sheet"
       THEN LET types == ColumnTypesOf(file)
                mappings == autoDetectMappings(file.names, types)
            IN  parser' = [call |-> "returned", isLoading |-> FALSE,
                           error |-> parser.error, parsedData |-> file,
                           columns |-> file.names, columnTypes |-> types,
                           suggestedMappings |-> mappings,
                           needsMapping |-> NeedsMapping(mappings)]
       ELSE parser' = [parser EXCEPT !.call = "threw", !.isLoading = FALSE,
                                     !.error = TRUE]
    /\ UNCHANGED <<file, aggVars, formulaVars, parseVars, detectVars, appVars, configVars, chartDataVars, totalVars, chartVars, callVars>>

NextParseFile == StartParse \/ FinishParse

SpecParseFile == InitParseFile /\ [][NextParseFile]_vars

-----------------------------------------------------------------------------
(* Calls of parseFile that overlap: a second call is made while the first  *)
(* awaits file.arrayBuffer().                                               *)

MaxCalls == 2

\* the files handed to the overlapping calls: sheets of one column, an empty
\* sheet and an unreadable file
OverlapFileDomain == {f \in FileDomain : Len(f.names) <= 1}

InitOverlap ==
    /\ AggIdle
    /\ FormulaIdle
    /\ ParseIdle
    /\ DetectIdle
    /\ ParserIdle
    /\ AppIdle
    /\ ConfigIdle
    /\ ChartDataIdle
    /\ TotalIdle
    /\ ChartIdle
    /\ CallsIdle

\* parseFile(f) up to await file.arrayBuffer()
CallParseFile ==
    /\ Len(calls) < MaxCalls
    /\ \E f \in OverlapFileDomain :
           calls' = Append(calls, [file |-> f, status |-> "awaiting"])
    /\ parser' = ParseEntered
    /\ UNCHANGED <<file, aggVars, formulaVars, parseVars, detectVars, appVars, configVars, chartDataVars, totalVars, chartVars>>

\* the continuation of one call after its await, to the end of finally; the
\* promises of the files resolve in any order
SettleParseFile ==
    \E i \in 1..Len(calls) :
        /\ calls[i].status = "awaiting"
        /\ LET f == calls[i].file
           IN  IF f.kind = "sheet"
               THEN LET types == ColumnTypesOf(f)
                        mappings == autoDetectMappings(f.names, types)
                    IN  /\ parser' = [call |-> "returned", isLoading |-> FALSE,
                                      error |-> parser.error, parsedData |-> f,
                                      columns |-> f.names, columnTypes |-> types,
                                      suggestedMappings |-> mappings,
                                      needsMapping |-> NeedsMapping(mappings)]
                        /\ calls' = [calls EXCEPT ![i].status = "returned"]
               ELSE /\ parser' = [parser EXCEPT !.call = "threw",
                                                !.isLoading = FALSE,
                                                !.error = TRUE]
                    /\ calls' = [calls EXCEPT ![i].status = "threw"]
        /\ UNCHANGED <<file, aggVars, formulaVars, parseVars, detectVars, appVars, configVars, chartDataVars, totalVars, chartVars>>

NextOverlap == CallParseFile \/ SettleParseFile

SpecOverlap == InitOverlap /\ [][NextOverlap]_vars

-----------------------------------------------------------------------------
(* App: a file is dropped, parsed, its suggested mapping shown in the       *)
(* Column Mapper, and the dashboard charts rendered.                        *)

\* the files dropped on the application: sheets of up to two columns, an
\* empty sheet and an unreadable file
AppFileDomain == {f \in FileDomain : Len(f.names) <= 2}

\* handleFileSelect: the suggested mapping in the format of the mapper
\* (color, undefined, is left out)
FormatMappings(suggested) ==
    [field \in DOMAIN suggested |->
        IF field = "date"
        THEN [column |-> suggested[field], label |-> suggested[field]]
        ELSE [column |-> suggested[field], label |-> suggested[field],
              isPercentage |-> field = "ctr"]]

\* ColumnMapper.handleMappingChange("date", columnName)
ChangeDate(mappings, columnName) ==
    [field \in DOMAIN mappings \cup {"date"} |->
        IF field = "date"
        THEN [column |-> columnName,
              label |-> IF "date" \in DOMAIN mappings THEN mappings["date"].label
                        ELSE columnName,
              isPercentage |-> FALSE]
        ELSE mappings[field]]

\* EngagementChart: the mapping built for useDataAggregator
AggregatorMapping(mapping) ==
    [field \in DOMAIN mapping |-> mapping[field].column]

\* parsedData && parsedData.length > 0 && confirmedMappings
HasData ==
    /\ parser.parsedData.kind = "sheet"
    /\ Len(parser.parsedData.names) > 0
    /\ app.confirmedMappings # <<>>

InitApp ==
    /\ AggIdle
    /\ FormulaIdle
    /\ ParseIdle
    /\ DetectIdle
    /\ ParserIdle
    /\ AppIdle
    /\ ConfigIdle
    /\ ChartDataIdle
    /\ TotalIdle
    /\ ChartIdle
    /\ CallsIdle

\* the DropZone, shown while there is no data, hands the chosen file to
\* handleFileSelect, which calls parseFile
SelectFile ==
    /\ ~HasData
    /\ parser.call = "idle"
    /\ file' \in AppFileDomain
    /\ parser' = ParseEntered
    /\ UNCHANGED <<aggVars, formulaVars, parseVars, detectVars, appVars, configVars, chartDataVars, totalVars, chartVars, callVars>>

\* handleFileSelect after the await: the suggestion is stored as the
\* confirmed mapping and the mapper is opened
HandleParsed ==
    /\ parser.call = "returned"
    /\ app' = [app EXCEPT
                  !.confirmedMappings = <<FormatMappings(parser.suggestedMappings)>>,
                  !.showMapper = TRUE]
    /\ parser' = [parser EXCEPT !.call = "idle"]
    /\ UNCHANGED <<file, aggVars, formulaVars, parseVars, detectVars, configVars, chartDataVars, totalVars, chartVars, callVars>>

\* handleFileSelect, catch: the error is logged
HandleRejected ==
    /\ parser.call = "threw"
    /\ parser' = [parser EXCEPT !.call = "idle"]
    /\ UNCHANGED <<file, aggVars, formulaVars, parseVars, detectVars, appVars, configVars, chartDataVars, totalVars, chartVars, callVars>>

\* the dashboard is rendered: the default charts call useDataAggregator with
\* the mapping built from confirmedMappings
RenderCharts ==
    /\ parser.call = "idle"
    /\ HasData
    /\ app' = [app EXCEPT !.aggregatorMapping =
                              <<AggregatorMapping(app.confirmedMappings[1])>>]
    /\ UNCHANGED <<aggVars, formulaVars, parseVars, detectVars, parserVars, configVars, chartDataVars, totalVars, chartVars, callVars>>

\* ColumnMapper.handleConfirm: onConfirm(mappings), then onClose(); the
\* mappings are those shown, or those after the date column was changed
ConfirmMapping ==
    /\ parser.call = "idle"
    /\ app.showMapper
    /\ \E mappings \in
           LET shown == IF app.confirmedMappings # <<>>
                        THEN app.confirmedMappings[1]
                        ELSE FormatMappings(parser.suggestedMappings)
           IN  {shown} \cup {ChangeDate(shown, parser.columns[i]) :
                                i \in 1..Len(parser.columns)} :
           app' = [app EXCEPT !.confirmedMappings = <<mappings>>,
                              !.showMapper = FALSE,
                              !.onConfirm = TRUE]
    /\ UNCHANGED <<aggVars, formulaVars, parseVars, detectVars, parserVars, configVars, chartDataVars, totalVars, chartVars, callVars>>

\* the mapper is closed or cancelled: onClose
CloseMapper ==
    /\ parser.call = "idle"
    /\ app.showMapper
    /\ app' = [app EXCEPT !.showMapper = FALSE]
    /\ UNCHANGED <<aggVars, formulaVars, parseVars, detectVars, parserVars, configVars, chartDataVars, totalVars, chartVars, callVars>>

\* the button of the dashboard that opens the mapper again
OpenMapper ==
    /\ parser.call = "idle"
    /\ HasData
    /\ ~app.showMapper
    /\ app' = [app EXCEPT !.showMapper = TRUE]
    /\ UNCHANGED <<aggVars, formulaVars, parseVars, detectVars, parserVars, configVars, chartDataVars, totalVars, chartVars, callVars>>

\* handleReset: reset() of the parser, confirmedMappings null, mapper closed
HandleReset ==
    /\ parser.call = "idle"
    /\ HasData
    /\ parser' = ParserReset
    /\ app' = AppReset
    /\ UNCHANGED <<file, aggVars, formulaVars, parseVars, detectVars, configVars, chartDataVars, totalVars, chartVars, callVars>>

NextApp ==
    \/ SelectFile
    \/ FinishParse
    \/ HandleParsed
    \/ HandleRejected
    \/ RenderCharts
    \/ ConfirmMapping
    \/ CloseMapper
    \/ OpenMapper
    \/ HandleReset

SpecApp == InitApp /\ [][NextApp]_vars

-----------------------------------------------------------------------------
(* useConfigStorage: named configurations kept in localStorage as the JSON   *)
(* text of one object, name -> {name, savedAt, mappings, charts}.            *)
(* A property that is undefined, or absent, is the empty sequence, and a     *)
(* present one the sequence of its value.                                    *)

MaxClock == 3

NameConstructor == <<"c", "o", "n", "s", "t", "r", "u", "c", "t", "o", "r">>

\* properties every object inherits from Object.prototype; their values are
\* functions, which are truthy
InheritedProperties == {NameConstructor}

\* !!configs[name]
ConfigTruthy(configs, name) ==
    name \in DOMAIN configs \/ name \in InheritedProperties

\* color: undefined, as handleFileSelect writes it
UndefinedColor == "undefined"

MappingsDate == [date |-> [column |-> NameDay, label |-> NameDay]]

MappingsSuggested ==
    [date |-> [column |-> NameDay, label |-> NameDay],
     ctr |-> [column |-> NameClickRate, label |-> NameClickRate,
              isPercentage |-> TRUE, color |-> UndefinedColor]]

ChartsNone == <<>>
ChartsOne == <<[id |-> "chart-1"]>>

\* the (mappings, charts) pairs saveConfig is called with
SaveArguments == {<<MappingsDate, ChartsNone>>, <<MappingsSuggested, ChartsOne>>}

\* JSON.parse(JSON.stringify(entry)) of one mapping entry: a property whose
\* value is undefined is left out
StringifyEntry(entry) ==
    IF "color" \in DOMAIN entry /\ entry["color"] = UndefinedColor
    THEN [k \in DOMAIN entry \ {"color"} |-> entry[k]]
    ELSE entry

StringifyMappings(mappings) ==
    [field \in DOMAIN mappings |-> StringifyEntry(mappings[field])]

\* JSON.parse(JSON.stringify(configs))
Stringify(configs) ==
    [n \in DOMAIN configs |->
        [configs[n] EXCEPT
            !.mappings = [i \in DOMAIN @ |-> StringifyMappings(@[i])]]]

\* delete configs[name]
DeleteKey(configs, name) == [n \in DOMAIN configs \ {name} |-> configs[n]]

\* getAllConfigs(): the stored object, {} when nothing is stored
getAllConfigs == storage

\* loadConfig(name): null (<<>>), or {mappings, charts} of configs[name]; an
\* inherited property has neither
loadConfig(name) ==
    LET configs == getAllConfigs
    IN  IF ~ConfigTruthy(configs, name) THEN <<>>
        ELSE IF name \in DOMAIN configs
        THEN <<[mappings |-> configs[name].mappings, charts |-> configs[name].charts]>>
        ELSE <<[mappings |-> <<>>, charts |-> <<>>]>>

InitConfig ==
    /\ AggIdle
    /\ FormulaIdle
    /\ ParseIdle
    /\ DetectIdle
    /\ ParserIdle
    /\ AppIdle
    /\ ConfigIdle
    /\ ChartDataIdle
    /\ TotalIdle
    /\ ChartIdle
    /\ CallsIdle

\* saveConfig(name, mappings, charts); stored tells whether setItem succeeds
\* (it throws when the quota is exceeded)
SaveConfig ==
    /\ clock < MaxClock
    /\ \E name \in ConfigNames \cup {<<>>}, args \in SaveArguments, stored \in BOOLEAN :
           IF name = <<>>
           THEN /\ configCall' = [op |-> "save", name |-> name, result |-> FALSE,
                                  loaded |-> <<>>]
                /\ UNCHANGED <<storage, clock, expected, chartDataVars, totalVars, chartVars, callVars>>
           ELSE LET configs == SetKey(getAllConfigs, name,
                                      [name |-> name, savedAt |-> clock,
                                       mappings |-> <<args[1]>>, charts |-> <<args[2]>>])
                IN  /\ clock' = clock + 1
                    /\ configCall' = [op |-> "save", name |-> name, result |-> stored,
                                      loaded |-> <<>>]
                    /\ IF stored
                       THEN /\ storage' = Stringify(configs)
                            /\ expected' = [expected EXCEPT ![name] =
                                               [state |-> "saved", mappings |-> <<args[1]>>,
                                                charts |-> <<args[2]>>]]
                       ELSE UNCHANGED <<storage, expected, chartDataVars, totalVars, chartVars, callVars>>
    /\ UNCHANGED <<aggVars, formulaVars, parseVars, detectVars, parserVars, appVars, chartDataVars, totalVars, chartVars, callVars>>

\* loadConfig(name)
LoadConfig ==
    /\ \E name \in ConfigNames :
           configCall' = [op |-> "load", name |-> name,
                          result |-> loadConfig(name) # <<>>,
                          loaded |-> loadConfig(name)]
    /\ UNCHANGED <<storage, clock, expected, chartDataVars, totalVars, chartVars, callVars>>
    /\ UNCHANGED <<aggVars, formulaVars, parseVars, detectVars, parserVars, appVars, chartDataVars, totalVars, chartVars, callVars>>

\* deleteConfig(name)
DeleteConfig ==
    /\ \E name \in ConfigNames, stored \in BOOLEAN :
           LET configs == getAllConfigs
           IN  IF ~ConfigTruthy(configs, name)
               THEN /\ configCall' = [op |-> "delete", name |-> name, result |-> FALSE,
                                      loaded |-> <<>>]
                    /\ UNCHANGED <<storage, expected, chartDataVars, totalVars, chartVars, callVars>>
               ELSE /\ configCall' = [op |-> "delete", name |-> name, result |-> stored,
                                      loaded |-> <<>>]
                    /\ IF stored
                       THEN /\ storage' = Stringify(DeleteKey(configs, name))
                            /\ expected' = [expected EXCEPT ![name] = NeverSaved]
                       ELSE UNCHANGED <<storage, expected, chartDataVars, totalVars, chartVars, callVars>>
    /\ UNCHANGED clock
    /\ UNCHANGED <<aggVars, formulaVars, parseVars, detectVars, parserVars, appVars, chartDataVars, totalVars, chartVars, callVars>>

\* renameConfig(oldName, newName); the spread of an inherited property, a
\* function, has no property of its own
RenameConfig ==
    /\ clock < MaxClock
    /\ \E oldName \in ConfigNames, newName \in ConfigNames \cup {<<>>}, stored \in BOOLEAN :
           LET configs == getAllConfigs
               rejected == \/ newName = <<>>
                           \/ ~ConfigTruthy(configs, oldName)
                           \/ ConfigTruthy(configs, newName) /\ oldName # newName
               config == IF oldName \in DOMAIN configs THEN configs[oldName]
                         ELSE [mappings |-> <<>>, charts |-> <<>>]
               renamed == SetKey(DeleteKey(configs, oldName), newName,
                                 [name |-> newName, savedAt |-> clock,
                                  mappings |-> config.mappings, charts |-> config.charts])
           IN  IF rejected
               THEN /\ configCall' = [op |-> "rename", name |-> oldName, result |-> FALSE,
                                      loaded |-> <<>>]
                    /\ UNCHANGED <<storage, clock, expected, chartDataVars, totalVars, chartVars, callVars>>
               ELSE /\ clock' = clock + 1
                    /\ configCall' = [op |-> "rename", name |-> oldName, result |-> stored,
                                      loaded |-> <<>>]
                    /\ IF stored
                       THEN /\ storage' = Stringify(renamed)
                            /\ expected' =
                                   IF oldName = newName THEN expected
                                   ELSE [expected EXCEPT
                                            ![oldName] = NeverSaved,
                                            ![newName] = [expected[oldName] EXCEPT
                                                             !.state = "renamed"]]
                       ELSE UNCHANGED <<storage, expected, chartDataVars, totalVars, chartVars, callVars>>
    /\ UNCHANGED <<aggVars, formulaVars, parseVars, detectVars, parserVars, appVars, chartDataVars, totalVars, chartVars, callVars>>

NextConfig == SaveConfig \/ LoadConfig \/ DeleteConfig \/ RenameConfig

SpecConfig == InitConfig /\ [][NextConfig]_vars


-----------------------------------------------------------------------------
(* Properties of the aggregation result *)

Out == aggregatedData.rows

HasDateColumn == HasMapping(columnMapping, "date")

\* the parsed dates of the input rows
RowDates ==
    [i \in 1..Len(rawData) |-> parseDate(Cell(rawData[i], columnMapping["date"]))]

\* the calendar bucket of a date, from the calendar fields alone
CalendarBucket(date, gran) ==
    LET c == CivilFromDays(date.day)
    IN  CASE gran = "daily" -> <<c.year, c.month, c.day>>
          [] gran = "monthly" -> <<c.year, c.month, 0>>
          [] gran = "quarterly" -> <<c.year, (c.month - 1) \div 3 + 1, 0>>

\* the calendar buckets of the input rows (of the parsable ones)
RowBuckets(dates) ==
    [i \in 1..Len(dates) |->
        IF dates[i].valid THEN CalendarBucket(dates[i], granularity) ELSE <<0, 0, 0>>]

\* bucket b1 lies before bucket b2 in time
BucketBefore(b1, b2) ==
    \/ b1[1] < b2[1]
    \/ b1[1] = b2[1] /\ b1[2] < b2[2]
    \/ b1[1] = b2[1] /\ b1[2] = b2[2] /\ b1[3] < b2[3]

RECURSIVE SumRowCount(_)
SumRowCount(rows) ==
    IF Len(rows) = 0 THEN 0 ELSE rows[1].rowCount + SumRowCount(Tail(rows))

\* C1: the rowCounts of the output periods add up to the number of input
\* rows whose date value parseDate turns into a date; rows with an
\* unparsable date are counted in no period.
C1_RowCountSum ==
    (aggregatedData.computed /\ HasDateColumn) =>
        LET dates == RowDates
        IN  SumRowCount(Out) = Cardinality({i \in 1..Len(dates) : dates[i].valid})

C1_Witness ==
    /\ aggregatedData.computed /\ HasDateColumn
    /\ Len(Out) >= 2
    /\ Len(rawData) = 3
    /\ LET dates == RowDates
       IN  Cardinality({i \in 1..Len(dates) : dates[i].valid}) = 2

\* C2: two rows with parsable dates share an output period exactly when
\* their dates lie in the same calendar day / month / quarter of the same
\* year: rows get equal period keys exactly when their calendar buckets are
\* equal, every parsable row's key is an output row that counts exactly the
\* rows of that calendar bucket, and there are as many output rows as
\* calendar buckets.
C2_CalendarGrouping ==
    (aggregatedData.computed /\ HasDateColumn) =>
        LET dates == RowDates
            parsable == {i \in 1..Len(dates) : dates[i].valid}
            buckets == RowBuckets(dates)
            keys == [i \in 1..Len(dates) |->
                        IF dates[i].valid THEN getPeriodKey(dates[i], granularity) ELSE <<>>]
        IN  /\ Len(Out) = Cardinality({buckets[i] : i \in parsable})
            /\ \A i, j \in parsable : (keys[i] = keys[j]) <=> (buckets[i] = buckets[j])
            /\ \A i \in parsable :
                   \E k \in 1..Len(Out) :
                       /\ Out[k].periodKey = keys[i]
                       /\ Out[k].rowCount =
                              Cardinality({j \in parsable : buckets[j] = buckets[i]})

\* rows of one month in different years, and rows of one month on different days
C2_Witness ==
    /\ aggregatedData.computed /\ HasDateColumn
    /\ granularity = "monthly"
    /\ Len(Out) = 2
    /\ LET dates == RowDates
           parsable == {i \in 1..Len(dates) : dates[i].valid}
       IN  /\ \E i, j \in parsable :
                  /\ getMonth(dates[i]) = getMonth(dates[j])
                  /\ getYear(dates[i]) # getYear(dates[j])
           /\ \E i, j \in parsable :
                  /\ i # j
                  /\ dates[i].day # dates[j].day
                  /\ CalendarBucket(dates[i], "monthly") = CalendarBucket(dates[j], "monthly")

\* C3: the output periods are in ascending order of their calendar buckets,
\* whatever the order of the input rows.
C3_Chronological ==
    aggregatedData.computed =>
        \A a, b \in 1..Len(Out) :
            a < b => /\ getPeriodKey(Out[a].date, granularity) = Out[a].periodKey
                     /\ getPeriodKey(Out[b].date, granularity) = Out[b].periodKey
                     /\ BucketBefore(CalendarBucket(Out[a].date, granularity),
                                     CalendarBucket(Out[b].date, granularity))

\* the bucket that is later in time is seen first in the input
C3_Witness ==
    /\ aggregatedData.computed /\ HasDateColumn
    /\ Len(Out) = 3
    /\ Len(rawData) = 3
    /\ LET dates == RowDates
           buckets == RowBuckets(dates)
       IN  /\ \A i \in 1..3 : dates[i].valid
           /\ BucketBefore(buckets[3], buckets[2])
           /\ BucketBefore(buckets[2], buckets[1])

\* C4: no two rows of one result have the same periodKey.
C4_UniquePeriodKey ==
    aggregatedData.computed =>
        \A a, b \in 1..Len(Out) : a # b => Out[a].periodKey # Out[b].periodKey

\* rows of one period are separated in the input by a row of another period
C4_Witness ==
    /\ aggregatedData.computed /\ HasDateColumn
    /\ Len(Out) = 2
    /\ Len(rawData) = 3
    /\ LET dates == RowDates
           buckets == RowBuckets(dates)
       IN  /\ \A i \in 1..3 : dates[i].valid
           /\ buckets[1] = buckets[3]
           /\ buckets[1] # buckets[2]

\* the column a metric field reads, as the claim states it
MetricColumn(field) ==
    IF HasMapping(columnMapping, field) THEN columnMapping[field] ELSE field

\* the input rows with their calendar bucket and their value in the column
RowFacts(column) ==
    [i \in 1..Len(rawData) |->
        LET date == parseDate(Cell(rawData[i], columnMapping["date"]))
        IN  [inBucket |-> IF date.valid THEN CalendarBucket(date, granularity)
                          ELSE <<0, 0, 0>>,
             v |-> parseNumericValue(Cell(rawData[i], column))]]

\* the numerically parsable values over the input rows of the calendar
\* bucket that the date lies in, in input order
BucketValues(facts, date) ==
    LET bucket == CalendarBucket(date, granularity)
        kept == SelectSeq(facts,
                          LAMBDA e : e.inBucket = bucket /\ e.v.k # "null" /\ e.v.k # "nan")
    IN  [i \in 1..Len(kept) |-> kept[i].v]

RECURSIVE Total(_)
Total(values) == IF Len(values) = 0 THEN Num(0) ELSE JsAdd(values[1], Total(Tail(values)))

\* v is the reduction of the non-empty list values
IsReduction(v, values, aggregationType) ==
    CASE aggregationType = "sum" -> NumEq(v, Total(values))
      [] aggregationType = "average" -> NumEq(JsMul(v, Num(Len(values))), Total(values))
      [] aggregationType = "count" -> NumEq(v, Num(Len(values)))
      [] aggregationType = "min" ->
            /\ \E i \in 1..Len(values) : NumEq(v, values[i])
            /\ \A i \in 1..Len(values) : ~NumLess(values[i], v)
      [] aggregationType = "max" ->
            /\ \E i \in 1..Len(values) : NumEq(v, values[i])
            /\ \A i \in 1..Len(values) : ~NumLess(v, values[i])

ExampleRows ==
    << MkRow(StrCell(Iso20240101), NumCell(Num(100))),
       MkRow(StrCell(Iso20240115), NumCell(Num(50))),
       MkRow(StrCell(Iso20240201), NumCell(Num(200))) >>

IsExample ==
    /\ aggregatedData.computed
    /\ rawData = ExampleRows
    /\ granularity = "monthly"
    /\ metrics = <<SalesSum>>

\* C5: every metric value of every output period is the reduction (sum,
\* average, count, min, max) of the numerically parsable values of the
\* metric's column over exactly the rows of that period; the rows of
\* 2024-01-01 (100), 2024-01-15 (50), 2024-02-01 (200), monthly, sum, give
\* 2024-01 = 150 followed by 2024-02 = 200.
C5_MetricReduction ==
    aggregatedData.computed =>
        /\ \A m \in 1..Len(metrics) :
               LET facts == RowFacts(MetricColumn(metrics[m].field))
               IN  \A k \in 1..Len(Out) :
                       LET values == BucketValues(facts, Out[k].date)
                       IN  Len(values) > 0 =>
                               IsReduction(Out[k][metrics[m].field], values,
                                           metrics[m].aggregationType)
        /\ IsExample =>
               /\ Len(Out) = 2
               /\ Out[1].periodKey = <<"2", "0", "2", "4", "-", "0", "1">>
               /\ Out[1].sales = Num(150)
               /\ Out[2].periodKey = <<"2", "0", "2", "4", "-", "0", "2">>
               /\ Out[2].sales = Num(200)

\* a period of two valid values and an unparsable one, averaged
C5_Witness ==
    /\ aggregatedData.computed
    /\ granularity = "monthly"
    /\ Len(rawData) = 3
    /\ \E m \in 1..Len(metrics) :
           /\ metrics[m].aggregationType = "average"
           /\ \E k \in 1..Len(Out) :
                  /\ Out[k].rowCount = 3
                  /\ Len(BucketValues(RowFacts(MetricColumn(metrics[m].field)),
                                      Out[k].date)) = 2

C5_ExampleWitness == IsExample /\ Len(Out) = 2

\* C6: a metric without any numerically parsable value in a (non-empty)
\* period has the value 0 there, for every aggregation type.
C6_EmptyIsZero ==
    aggregatedData.computed =>
        \A m \in 1..Len(metrics) :
            LET facts == RowFacts(MetricColumn(metrics[m].field))
            IN  \A k \in 1..Len(Out) :
                    Len(BucketValues(facts, Out[k].date)) = 0
                        => /\ Out[k].rowCount >= 1
                           /\ Out[k][metrics[m].field] = Num(0)

C6_Witness ==
    /\ aggregatedData.computed
    /\ \E k \in 1..Len(Out) : \E m \in 1..Len(metrics) :
           /\ metrics[m].aggregationType = "min"
           /\ Out[k].rowCount >= 1
           /\ Len(BucketValues(RowFacts(MetricColumn(metrics[m].field)), Out[k].date)) = 0

\* C7: the result is empty when there are no rows or the mapping has no
\* date column, whatever the granularity and the metrics.
C7_EmptyResult ==
    (aggregatedData.computed /\ (Len(rawData) = 0 \/ ~HasDateColumn)) => Out = <<>>

\* rows with dates in a column named date, and a mapping without date
C7_Witness ==
    /\ aggregatedData.computed
    /\ ~HasDateColumn
    /\ Len(rawData) = 3
    /\ \A i \in 1..3 : parseDate(Cell(rawData[i], "date")).valid
    /\ Len(metrics) > 0

\* the start of the calendar bucket of a date
BucketStart(date, gran) ==
    CASE gran = "daily" -> startOfDay(date)
      [] gran = "monthly" -> startOfMonth(date)
      [] gran = "quarterly" -> startOfQuarter(date)

\* C8: the date of every output row is the start of its bucket.
C8_DateIsBucketStart ==
    aggregatedData.computed =>
        \A k \in 1..Len(Out) : Out[k].date = BucketStart(Out[k].date, granularity)

-----------------------------------------------------------------------------
(* evaluateFormula: the whitelist and the value returned *)

\* the formula with every reference that resolves to a number replaced by
\* the text of the number, the other references left as they are
RECURSIVE SubstituteResolved(_, _, _, _)
SubstituteResolved(expression, refs, r, mapping) ==
    IF Len(refs) = 0 THEN expression
    ELSE LET value == ColumnValue(ColumnName(refs[1]), r, mapping)
         IN  SubstituteResolved(
                 IF value = Null \/ IsNaN(value) THEN expression
                 ELSE ReplaceAll(expression, refs[1], NumberToString(value)),
                 Tail(refs), r, mapping)

Substituted == SubstituteResolved(formula, ColumnRefs(formula), row, fmapping)

\* every character is a digit, one of + - * / ( ) . or whitespace
OnlyArithmeticChars(s) ==
    \A i \in 1..Len(s) :
        \/ s[i] \in {"0", "1", "2", "3", "4", "5", "6", "7", "8", "9"}
        \/ s[i] \in {"+", "-", "*", "/", "(", ")", "."}
        \/ s[i] \in {" ", "\t", "\n", "\r"}

\* C9: evaluateFormula hands the substituted string to Function only if
\* every character of it is a digit, one of + - * / ( ) . or whitespace; when
\* any other character remains (an unresolved reference, an identifier, a
\* semicolon, a quote, ...) it returns null and nothing is executed.
C9_WhitelistGuard ==
    fstate.pc = "done" =>
        LET s == Substituted
        IN  /\ fstate.executed => OnlyArithmeticChars(s) /\ fstate.expression = s
            /\ ~OnlyArithmeticChars(s) => ~fstate.executed /\ fstate.result = Null

\* every reference resolved, another character remains, nothing was executed
C9_Witness ==
    /\ fstate.pc = "done"
    /\ formula = FormulaInjection
    /\ fstate.expression = Substituted
    /\ \E i \in 1..Len(fstate.expression) : fstate.expression[i] = ";"
    /\ ~\E i \in 1..Len(fstate.expression) : fstate.expression[i] = "{"
    /\ ~fstate.executed
    /\ fstate.result = Null

\* s occurs in t
Occurs(s, t) == \E i \in 1..(Len(t) - Len(s) + 1) : SubSeq(t, i, i + Len(s) - 1) = s

\* the tokens of the formula, each reference being one operand whose value is
\* the number it resolves to; an ErrToken for a reference that resolves to
\* no finite number
RECURSIVE FormulaTokens(_, _, _)
FormulaTokens(f, r, mapping) ==
    LET open == IndexOf(f, "{")
        close == IF open = 0 THEN 0 ELSE IndexOf(Drop(f, open), "}")
    IN  IF open = 0 \/ close <= 1 THEN Lex(f)
        ELSE LET value == ColumnValue(ColumnName(SubSeq(f, open, open + close)),
                                      r, mapping)
             IN  Lex(SubSeq(f, 1, open - 1))
                     \o <<IF value # Null /\ IsFinite(value)
                          THEN NumToken(value) ELSE ErrToken>>
                     \o FormulaTokens(Drop(f, open + close), r, mapping)

\* an arithmetic expression over references, numeric literals, + - * / and
\* parentheses: no comment and no operator made of two characters
WellFormedArithmetic(f, toks) ==
    /\ ~Occurs(<<"/", "/">>, f)
    /\ ~Occurs(<<"/", "*">>, f)
    /\ \A i \in 1..Len(toks) :
           /\ toks[i].t # "err"
           /\ toks[i].t = "op" => toks[i].c \in {"+", "-", "*", "/", "(", ")"}
    /\ EvalTokens(toks).ok

\* C10: for a well-formed arithmetic formula whose references all resolve to
\* finite numbers (positive, zero or negative) and whose value is finite,
\* evaluateFormula returns the value of the expression with each reference
\* standing as a single operand for its number.
C10_ValueOfFormula ==
    fstate.pc = "done" =>
        LET toks == FormulaTokens(formula, row, fmapping)
        IN  WellFormedArithmetic(formula, toks) /\ IsFinite(EvalTokens(toks).v)
                => /\ fstate.result # Null
                   /\ NumEq(fstate.result, EvalTokens(toks).v)

\* a cell that parseFloat turns into a number
IsNumericCell(c) == ~IsNaN(ParseFloatCell(c))

\* no stage of the lookup yields a number for the name: not the key itself,
\* not a key equal to it up to case, not the column of a mapping entry that
\* names it
ResolvesAtNoStage(columnName, r, mapping) ==
    /\ \A i \in 1..Len(r) :
           ToLowerCase(r[i].key) = ToLowerCase(columnName) => ~IsNumericCell(r[i].val)
    /\ \A e \in 1..Len(mapping) :
           (\/ mapping[e].column = columnName
            \/ mapping[e].label = columnName
            \/ mapping[e].field = columnName)
               => \A i \in 1..Len(r) :
                      r[i].key \in {mapping[e].column, columnName}
                          => ~IsNumericCell(r[i].val)

\* C11: when at least one reference of the formula resolves to a number at
\* no stage, evaluateFormula returns null, whatever the other references and
\* the rest of the formula are.
C11_FailClosed ==
    fstate.pc = "done" =>
        LET refs == ColumnRefs(formula)
        IN  (\E i \in 1..Len(refs) :
                 ResolvesAtNoStage(ColumnName(refs[i]), row, fmapping))
                => fstate.result = Null

\* the first reference resolves, a later one does not, and the result is null
C11_Witness ==
    /\ fstate.pc = "done"
    /\ LET refs == ColumnRefs(formula)
       IN  /\ Len(refs) >= 2
           /\ ~ResolvesAtNoStage(ColumnName(refs[1]), row, fmapping)
           /\ IsFinite(ColumnValue(ColumnName(refs[1]), row, fmapping))
           /\ ResolvesAtNoStage(ColumnName(refs[2]), row, fmapping)
    /\ fstate.result = Null

-----------------------------------------------------------------------------
(* parseDate on serial numbers, parseNumericValue *)

\* the date of a calendar day at midnight
CivilDate(y, m, d) == MkDate(DaysFromCivil(y, m, d), 0)

\* C12: parseDate applied to the serial number 1 returns the calendar date
\* 1900-01-01.
C12_SerialOne ==
    presult.pc = "parseDate" /\ pvalue = NumCell(Num(1))
        => presult.date = CivilDate(1900, 1, 1)

IsSerial(c) ==
    c.t = "num" /\ c.num.k = "fin" /\ c.num.d = 1 /\ c.num.s = 1
        /\ c.num.n >= 30000 /\ c.num.n <= 50000

\* C13: for every integer serial number n from 30000 to 50000, parseDate(n)
\* is the date n days after 1899-12-30, and its year lies between 1982 and
\* 2036.
C13_SerialRange ==
    presult.pc = "parseDate" /\ IsSerial(pvalue)
        => /\ presult.date = MkDate(CivilDate(1899, 12, 30).day + pvalue.num.n, 0)
           /\ getYear(presult.date) >= 1982
           /\ getYear(presult.date) <= 2036
           /\ CivilDate(1982, 1, 1).day <= presult.date.day
           /\ presult.date.day <= CivilDate(2036, 12, 31).day

\* the last serial number of the range is 2036-11-21
C13_Witness ==
    /\ presult.pc = "parseDate"
    /\ pvalue = NumCell(Num(50000))
    /\ presult.date = CivilDate(2036, 11, 21)

\* C14: parseNumericValue returns a finite number unchanged, and null for
\* every input that is neither a finite number nor a string: NaN, +Infinity,
\* -Infinity, booleans, null, undefined and objects.
C14_NumericOrNull ==
    presult.pc = "parseNumericValue" =>
        /\ pvalue.t = "num" /\ IsFinite(pvalue.num) => presult.number = pvalue.num
        /\ pvalue.t = "num" /\ ~IsFinite(pvalue.num) => presult.number = Null
        /\ pvalue.t \notin {"num", "str"} => presult.number = Null

\* a decimal number: digits, with optional thousands commas between groups
\* of three, and an optional fraction
IsDecimalText(s) ==
    LET dot == IndexOf(s, ".")
        int == IF dot = 0 THEN s ELSE SubSeq(s, 1, dot - 1)
        frac == IF dot = 0 THEN <<>> ELSE Drop(s, dot)
        plain == SelectSeq(int, LAMBDA c : c # ",")
    IN  /\ Len(plain) > 0 /\ AllDigits(plain)
        /\ dot # 0 => Len(frac) > 0 /\ AllDigits(frac)
        /\ \A i \in 1..Len(int) :
               int[i] = "," => /\ i > 1
                               /\ Len(int) - i >= 3
                               /\ (Len(int) - i) % 4 = 3
                               /\ \A j \in 1..3 : int[i + j] # ","

\* the number a decimal text denotes
DecimalValue(s) ==
    LET dot == IndexOf(s, ".")
        plain == SelectSeq(IF dot = 0 THEN s ELSE SubSeq(s, 1, dot - 1),
                           LAMBDA c : c # ",")
        frac == IF dot = 0 THEN <<>> ELSE Drop(s, dot)
    IN  Fin(1, DigitsVal(plain) * Pow10(Len(frac))
                   + (IF Len(frac) = 0 THEN 0 ELSE DigitsVal(frac)),
            Pow10(Len(frac)))

Glyphs == {"$", "EUR", "GBP", "YEN"}

\* a currency glyph before or after a decimal number
IsGlyphedAmount(s) ==
    /\ Len(s) >= 2
    /\ \/ s[1] \in Glyphs /\ IsDecimalText(Tail(s))
       \/ s[Len(s)] \in Glyphs /\ IsDecimalText(SubSeq(s, 1, Len(s) - 1))

GlyphedAmount(s) ==
    IF s[1] \in Glyphs THEN DecimalValue(Tail(s))
    ELSE DecimalValue(SubSeq(s, 1, Len(s) - 1))

\* C15: every string the type detector counts as currency because a glyph
\* $, EUR, GBP or YEN stands before or after a decimal number is turned by
\* parseNumericValue into that number, not null.
C15_CurrencyParses ==
    presult.pc = "parseNumericValue" /\ pvalue.t = "str"
            /\ IsGlyphedAmount(pvalue.str) /\ CategoryOf(pvalue) = "currency"
        => /\ presult.number # Null
           /\ NumEq(presult.number, GlyphedAmount(pvalue.str))

-----------------------------------------------------------------------------
(* detectColumnType: the decision over the counts *)

\* the non-empty values among the first 20 of the column
NonEmptySample ==
    LET n == IF Len(dvalues) < 20 THEN Len(dvalues) ELSE 20
    IN  SelectSeq(SubSeq(dvalues, 1, n),
                  LAMBDA v : v # NullCell /\ v # UndefCell /\ v # StrCell(<<>>))

\* how many categories of the list are the given one
RECURSIVE Matching(_, _)
Matching(sample, category) ==
    IF Len(sample) = 0 THEN 0
    ELSE (IF sample[1] = category THEN 1 ELSE 0) + Matching(Tail(sample), category)

CategoryOrder == <<"date", "percentage", "currency", "number">>

\* at least 60% of total
AtLeast60(count, total) == 5 * count >= 3 * total

\* C16: detectColumnType returns the first of date, percentage, currency,
\* number whose count of matching values is at least 60% of the non-empty
\* sampled values, each value counted in at most one category; it returns
\* text when no category reaches 60% and when the sample has no non-empty
\* value.
C16_FirstCategory ==
    dtype # "idle" =>
        LET sample == [i \in 1..Len(NonEmptySample) |-> CategoryOf(NonEmptySample[i])]
            total == Len(sample)
            reached == {i \in 1..4 : AtLeast60(Matching(sample, CategoryOrder[i]), total)}
        IN  /\ Matching(sample, "date") + Matching(sample, "percentage")
                   + Matching(sample, "currency") + Matching(sample, "number") <= total
            /\ IF total = 0 \/ reached = {} THEN dtype = "text"
               ELSE dtype = CategoryOrder[CHOOSE i \in reached : \A j \in reached : i <= j]

\* currency holding exactly 60% of the sample, no earlier category as much
C16_Witness ==
    /\ dtype = "currency"
    /\ Len(NonEmptySample) = 5
    /\ Cardinality({i \in 1..5 : CategoryOf(NonEmptySample[i]) = "currency"}) = 3

-----------------------------------------------------------------------------
(* autoDetectMappings and needsMapping *)

\* s occurs in the lower-cased column name
NameHas(name, s) == Occurs(s, ToLowerCase(name))

\* the rule of each business field on a column name and its detected type
FieldRule(field, name, type) ==
    CASE field = "date" ->
            \/ type = "date"
            \/ \E k \in {<<"d", "a", "t", "e">>, <<"t", "i", "m", "e">>,
                         <<"d", "a", "y">>, <<"p", "e", "r", "i", "o", "d">>} :
                   NameHas(name, k)
      [] field = "attributableSales" ->
            NameHas(name, <<"s", "a", "l", "e", "s">>)
                \/ NameHas(name, <<"r", "e", "v", "e", "n", "u", "e">>)
      [] field = "ctr" ->
            \/ NameHas(name, <<"c", "t", "r">>)
            \/ NameHas(name, <<"c", "l", "i", "c", "k", " ", "t", "h", "r", "o", "u", "g", "h">>)
            \/ NameHas(name, <<"c", "l", "i", "c", "k", "t", "h", "r", "o", "u", "g", "h">>)
            \/ NameHas(name, <<"c", "l", "i", "c", "k", "-", "t", "h", "r", "o", "u", "g", "h">>)
            \/ NameHas(name, <<"c", "l", "i", "c", "k", " ", "r", "a", "t", "e">>)
      [] field = "impressions" ->
            \/ NameHas(name, <<"i", "m", "p", "r">>)
            \/ NameHas(name, <<"v", "i", "e", "w", "s">>)
            \/ NameHas(name, <<"r", "e", "a", "c", "h">>)
      [] field = "clicks" ->
            /\ NameHas(name, <<"c", "l", "i", "c", "k">>) \/ NameHas(name, <<"c", "l", "k">>)
            /\ ~NameHas(name, <<"r", "a", "t", "e">>)
            /\ ~NameHas(name, <<"t", "h", "r", "o", "u", "g", "h">>)
      [] OTHER ->
            \/ NameHas(name, <<"s", "p", "e", "n", "d">>)
            \/ NameHas(name, <<"c", "o", "s", "t">>)
            \/ NameHas(name, <<"b", "u", "d", "g", "e", "t">>)

BusinessFields == {"date", "attributableSales", "ctr", "impressions", "clicks", "spend"}

ParseSucceeded == parser.call = "returned"

\* C17: each of the six business fields gets the lowest-index column that
\* matches its rule and nothing else, and is omitted when no column matches;
\* date matches a column of type date or with a date keyword in its name;
\* clicks never gets a column whose name contains "rate" or "through"; equal
\* column lists and types give equal mappings.
C17_FirstMatchWins ==
    ParseSucceeded =>
        LET cols == parser.columns
            sm == parser.suggestedMappings
            hits == [f \in BusinessFields |->
                        {i \in 1..Len(cols) :
                            FieldRule(f, cols[i], parser.columnTypes[cols[i]])}]
        IN  /\ DOMAIN sm \subseteq BusinessFields
            /\ \A f \in BusinessFields :
                   IF hits[f] = {} THEN f \notin DOMAIN sm
                   ELSE /\ f \in DOMAIN sm
                        /\ \E i \in hits[f] :
                               sm[f] = cols[i] /\ \A j \in hits[f] : i <= j
            /\ "clicks" \in DOMAIN sm =>
                   /\ ~NameHas(sm["clicks"], <<"r", "a", "t", "e">>)
                   /\ ~NameHas(sm["clicks"], <<"t", "h", "r", "o", "u", "g", "h">>)
            /\ sm = autoDetectMappings(cols, parser.columnTypes)

\* two columns match the date rule, the first by its type and the second by
\* its name, and the first is taken; a click rate column is not the clicks
C17_Witness ==
    /\ ParseSucceeded
    /\ parser.columns = <<NameItem, NameDay, NameClickRate>>
    /\ parser.columnTypes[NameItem] = "date"
    /\ parser.suggestedMappings = [date |-> NameItem, ctr |-> NameClickRate]

\* C18: after a successful parseFile, needsMapping is true exactly when the
\* suggested mapping has no date column or none of attributableSales, ctr,
\* impressions.
C18_NeedsMapping ==
    ParseSucceeded =>
        LET sm == parser.suggestedMappings
            hasDate == "date" \in DOMAIN sm
            hasMetric == \E f \in {"attributableSales", "ctr", "impressions"} :
                             f \in DOMAIN sm
        IN  /\ parser.needsMapping <=> (~hasDate \/ ~hasMetric)
            /\ hasDate /\ hasMetric => ~parser.needsMapping

\* a date column was found and no metric: the mapper is needed
C18_Witness ==
    /\ ParseSucceeded
    /\ "date" \in DOMAIN parser.suggestedMappings
    /\ DOMAIN parser.suggestedMappings \subseteq {"date", "clicks", "spend"}
    /\ parser.needsMapping

-----------------------------------------------------------------------------
(* The mapping is confirmed before anything is aggregated *)

\* useDataAggregator groups the rows when the mapping has a date column
AggregationRan ==
    /\ app.aggregatorMapping # <<>>
    /\ "date" \in DOMAIN app.aggregatorMapping[1]

\* C19: no aggregation runs on the auto-suggested mapping of a parsed file
\* until the user has confirmed it in the Column Mapper: whenever rows of the
\* dataset have been aggregated, onConfirm was called for that dataset
\* before, and while the mapper is closed and nothing was confirmed, no
\* mapping is committed.
C19_ConfirmBeforeAggregate ==
    /\ AggregationRan => app.onConfirm
    /\ ~app.showMapper /\ ~app.onConfirm => app.confirmedMappings = <<>>

-----------------------------------------------------------------------------
(* Calling the aggregation again *)

-----------------------------------------------------------------------------
(* Saved configurations *)

\* C21: after saveConfig(name, mappings, charts) returned true, loadConfig(name)
\* returns exactly those mappings and charts whatever was saved, deleted or
\* renamed under other names since; loadConfig of a name never saved, deleted
\* or renamed away returns null.
C21_LoadReturnsSaved ==
    configCall.op = "load" =>
        LET e == expected[configCall.name]
        IN  /\ e.state = "saved" =>
                configCall.loaded = <<[mappings |-> e.mappings, charts |-> e.charts]>>
            /\ e.state = "none" => configCall.loaded = <<>>

-----------------------------------------------------------------------------
(* A granularity outside GRANULARITY *)

\* C22: a call of aggregate with a granularity outside the recognized set is
\* an error signalled to the caller and produces no aggregation result: no
\* period comes out of such a call.
C22_UnknownGranularityRejected ==
    granularity \notin Granularities => aggregatedData.rows = <<>>

-----------------------------------------------------------------------------
(* A formula without a value in the chart data *)

\* C23: when the formula of a metric evaluates to null for a row, the row
\* carries no number for the metric: the value is missing, not a data point.
C23_NullIsMissing ==
    chartPoint.set /\ fstate.result = Null => chartPoint.value = Null

-----------------------------------------------------------------------------
(* The order in which a reference is resolved *)

\* what evaluateFormula returns for a formula that is one reference whose
\* value is v: the number, or null when v is no number
ReferenceGives(v) ==
    IF v = Null \/ IsNaN(v) THEN fstate.result = Null
    ELSE fstate.result # Null /\ NumEq(fstate.result, v)

\* the value a mapping entry naming the reference by column, label or field
\* gives: that of the entry's column in the row
ThroughMapping(name, r, mapping) ==
    LET named == {e \in 1..Len(mapping) :
                     name \in {mapping[e].column, mapping[e].label, mapping[e].field}}
    IN  IF named = {} THEN Null
        ELSE LET e == CHOOSE x \in named : \A y \in named : x <= y
                 cells == {i \in 1..Len(r) : r[i].key = mapping[e].column}
             IN  IF cells = {} THEN Null
                 ELSE ParseFloatCell(r[CHOOSE i \in cells : TRUE].val)

\* C24: a reference is resolved by the row key equal to it, else by the first
\* row key equal to it up to case, else through the mapping: the exact key
\* is used even if another key matches up to case or a mapping entry names
\* the reference, and the mapping is consulted only when no key matches.
C24_ResolutionOrder ==
    fstate.pc = "done" /\ Len(ColumnRefs(formula)) = 1 =>
        LET name == ColumnName(ColumnRefs(formula)[1])
            exact == {i \in 1..Len(row) : row[i].key = name}
            upToCase == {i \in 1..Len(row) : ToLowerCase(row[i].key) = ToLowerCase(name)}
        IN  IF exact # {}
            THEN ReferenceGives(ParseFloatCell(row[CHOOSE i \in exact : TRUE].val))
            ELSE IF upToCase # {}
            THEN ReferenceGives(ParseFloatCell(
                     row[CHOOSE i \in upToCase : \A j \in upToCase : i <= j].val))
            ELSE ReferenceGives(ThroughMapping(name, row, fmapping))

\* the key a holds text, an earlier key A and the column of a mapping entry
\* naming a hold numbers: the result is null
C24_Witness ==
    /\ fstate.pc = "done"
    /\ formula = FormulaRef_a
    /\ fmapping = AmountMapping
    /\ Len(row) = 3
    /\ row[1] = Entry(Chars_A, NumCell(Num(7)))
    /\ row[2] = Entry(Chars_a, StrCell(<<"a", "b", "c">>))
    /\ row[3] = Entry(Chars_amount, NumCell(Num(2)))
    /\ fstate.result = Null

-----------------------------------------------------------------------------
(* Results that are no finite number *)

\* C25: evaluateFormula returns null whenever the value of the validated
\* expression is not a finite number, in particular for x/0 and 0/0, and
\* returns null when the validated expression is not valid arithmetic.
C25_NotFiniteIsNull ==
    fstate.pc = "done" =>
        /\ fstate.executed =>
               LET run == RunExpression(fstate.expression)
               IN  ~run.ok \/ ~IsFinite(run.v) => fstate.result = Null
        /\ formula = FormulaRatio /\ row \in {RowZero, RowZeros} =>
               fstate.executed /\ fstate.result = Null
        /\ fstate.result # Null => IsFinite(fstate.result)

\* 5 / 0 * 100 was evaluated and null returned
C25_Witness ==
    /\ fstate.pc = "done"
    /\ formula = FormulaRatio
    /\ row = RowZero
    /\ fstate.executed
    /\ fstate.result = Null

-----------------------------------------------------------------------------
(* Serial numbers at the ends of the range *)

\* a number v with 30000 <= v <= 50000
InSerialRange(value) ==
    /\ value.t = "num"
    /\ ~IsNaN(value.num)
    /\ ~NumLess(value.num, Num(30000))
    /\ ~NumLess(Num(50000), value.num)

\* C26: every numeric cell v with 30000 <= v <= 50000, both ends included, is
\* counted as a date: a column of such cells only is detected as a date
\* column.
C26_SerialRangeInclusive ==
    /\ dtype # "idle"
    /\ Len(dvalues) > 0
    /\ \A i \in 1..Len(dvalues) : InSerialRange(dvalues[i])
    => dtype = "date"

-----------------------------------------------------------------------------
(* Totals of a metric *)

\* the values of the field over the periods of the result that carry it
PeriodValues(field) ==
    LET carrying == SelectSeq(Out, LAMBDA r : field \in DOMAIN r)
    IN  [i \in 1..Len(carrying) |-> carrying[i][field]]

\* C27: getMetricTotal(field, aggregationType) is the reduction, by the same
\* rule, of the per-period values of the field in the current result, not of
\* the raw rows: their total, their unweighted mean, their number, their
\* least or greatest; 0 when no period carries the field.
C27_TotalOfPeriods ==
    metricTotal.called =>
        LET values == PeriodValues(metricTotal.field)
        IN  IF Len(values) = 0 THEN metricTotal.value = Num(0)
            ELSE IsReduction(metricTotal.value, values, metricTotal.aggregationType)

\* the mean of two periods, one of which has two rows
C27_Witness ==
    /\ metricTotal.called
    /\ metricTotal.aggregationType = "average"
    /\ Len(PeriodValues(metricTotal.field)) = 2
    /\ Len(rawData) = 3
    /\ metricTotal.value # Num(0)

-----------------------------------------------------------------------------
(* Visible metrics *)

\* the selected metrics the chart draws
VisibleMetrics == Fields(chart.selectedMetrics) \ chart.hiddenMetrics

\* C28: on a chart with at least one selected metric, after any sequence of
\* legend clicks and selector toggles at least one selected metric is visible.
C28_OneMetricVisible ==
    Len(chart.selectedMetrics) > 0 => VisibleMetrics # {}

-----------------------------------------------------------------------------
(* Overlapping calls of parseFile *)

Unsettled == {i \in 1..Len(calls) : calls[i].status = "awaiting"}

\* the state exposed is that of a parse of the file f
ExposesFile(f) ==
    /\ parser.parsedData = f
    /\ parser.columns = f.names
    /\ parser.columnTypes = ColumnTypesOf(f)
    /\ parser.suggestedMappings = autoDetectMappings(f.names, ColumnTypesOf(f))

\* C29: isLoading is true whenever a call of parseFile has started and not
\* settled, overlapping calls included, and false once all have settled; the
\* data, columns, types and suggested mapping exposed belong to one file.
C29_LoadingWhileUnsettled ==
    /\ Unsettled # {} => parser.isLoading
    /\ (Len(calls) > 0 /\ Unsettled = {}) => ~parser.isLoading
    /\ (\E i \in 1..Len(calls) : calls[i].status = "returned") =>
           \E i \in 1..Len(calls) : ExposesFile(calls[i].file)

-----------------------------------------------------------------------------
(* Rows in another order *)

\* what a result says of its periods apart from their date: periodKey, label,
\* rowCount and the values of the metrics
PeriodFacts(rows) ==
    [i \in 1..Len(rows) |->
        [f \in DOMAIN rows[i] \ {"date"} |-> rows[i][f]]]

\* C30: permuting the input rows changes neither the sequence of periodKeys,
\* nor the label and rowCount of a period, nor the value of a sum, count,
\* min or max metric.
C30_OrderOfRowsIrrelevant ==
    previousData.computed =>
        PeriodFacts(aggregatedData.rows) = PeriodFacts(previousData.rows)

=============================================================================
